---- MODULE Spec2Model ----
(***************************************************************************)
(* bergr: the snapshot file-tree walk of `table snapshot <id> files`.      *)
(*                                                                         *)
(* The model follows src/src/table_commands.rs (handle_snapshot_files,     *)
(* handle_snapshot_files_streaming, iterate_files,                         *)
(* handle_snapshot_files_with_s3_cache) and src/src/s3_lister.rs           *)
(* (parse_s3_url, find_common_prefix, list_objects_with_prefix,            *)
(* S3FileCache).  Strings are sequences of one-character strings, so that  *)
(* prefix stripping, searching and truncation are computed as the code     *)
(* computes them.  Option<T> is a sequence of length 0 (None) or 1 (Some). *)
(***************************************************************************)
EXTENDS Integers, Sequences, FiniteSets, TLC

\* ------------------------------------------------------------------ bounds
\* Longest manifest list and longest manifest of the snapshots explored.
MaxManifests == 2
MaxEntries == 2
\* Keys per page of the bulk listing (chosen by the store).
PageSize == 1
\* Longest batch of paths handed to find_common_prefix on its own.
MaxPaths == 3
\* The characters of a URL after its scheme, at most.
MaxRest == 3
\* The items of a stream handed to display_stream, at most.
MaxItems == 3
\* The characters of a snapshot id given on the command line, at most.
MaxIdLen == 3
\* The manifests of a snapshot with more manifests than the fetch window holds.
ManyManifests == 8
\* The live entries of a manifest with more data files than the probe window holds.
ManyFiles == 14
\* The pages of a listing handed to list_objects_with_prefix on its own, at most.
MaxPages == 2
\* The requests counted for one page of a listing: beyond it the count stays.
MaxRequests == 2

\* ------------------------------------------------------- program constants
\* stream::iter(tasks).buffered(7): manifest fetches admitted and not yet yielded.
ManifestWindow == 7
\* stream::iter(tasks).buffered(13): existence tasks admitted and not yet yielded.
ProbeWindow == 13

\* ------------------------------------------------------------------ Option
None == <<>>
Some(x) == <<x>>
IsSome(o) == o # None
Unwrap(o) == o[1]
\* Mutant: a failed probe taken for a present file.
unwrap_or_true(r) == IF IsSome(r) THEN Unwrap(r) ELSE TRUE
\* Result<bool>::unwrap_or(false): r is Some(b) for Ok(b), None for Err(_).
unwrap_or_false(r) == IF IsSome(r) THEN Unwrap(r) ELSE FALSE

\* ----------------------------------------------------------------- strings
StartsWith(s, p) == Len(p) <= Len(s) /\ SubSeq(s, 1, Len(p)) = p
\* str::strip_prefix
strip_prefix(s, p) ==
    IF StartsWith(s, p) THEN Some(SubSeq(s, Len(p) + 1, Len(s))) ELSE None
\* str::find(char): the first position of c, None when c does not occur.
find(s, c) ==
    LET hits == {i \in 1..Len(s) : s[i] = c}
    IN IF hits = {} THEN None ELSE Some(CHOOSE i \in hits : \A j \in hits : i <= j)
\* str::rfind(char): the last position of c.
rfind(s, c) ==
    LET hits == {i \in 1..Len(s) : s[i] = c}
    IN IF hits = {} THEN None ELSE Some(CHOOSE i \in hits : \A j \in hits : i >= j)

\* The UTF-8 length of a character: "é" stands for the characters outside
\* ASCII, which take more than one byte.
len_utf8(c) == IF c = "é" THEN 2 ELSE 1
\* str::len: the length in bytes.
RECURSIVE len(_)
len(s) == IF s = <<>> THEN 0 ELSE len_utf8(Head(s)) + len(Tail(s))
\* String::truncate(new_len), new_len counted in bytes: no effect when new_len
\* is not below the length, Some(the characters that end by byte new_len) when
\* new_len is a char boundary, None for the panic when it is not.
truncate(s, new_len) ==
    IF new_len >= len(s) THEN Some(s)
    ELSE LET cuts == {i \in 0..Len(s) : len(SubSeq(s, 1, i)) = new_len}
         IN IF cuts = {} THEN None
            ELSE Some(SubSeq(s, 1, CHOOSE i \in cuts : TRUE))

S3Scheme == <<"s", "3", ":", "/", "/">>
S3aScheme == <<"s", "3", "a", ":", "/", "/">>

\* Mutant: only the s3:// scheme is taken for an S3 URL.
parse_s3_url_s3_only(url) ==
    LET rest == strip_prefix(url, S3Scheme)
    IN IF ~IsSome(rest) THEN None
       ELSE LET r == Unwrap(rest)
                slash_pos == find(r, "/")
            IN IF ~IsSome(slash_pos) THEN None
               ELSE Some(<<SubSeq(r, 1, Unwrap(slash_pos) - 1),
                           SubSeq(r, Unwrap(slash_pos) + 1, Len(r))>>)
\* parse_s3_url: Some(<<bucket, key>>) for s3://bucket/key and s3a://bucket/key.
parse_s3_url(url) ==
    LET a == strip_prefix(url, S3Scheme)
        rest == IF IsSome(a) THEN a ELSE strip_prefix(url, S3aScheme)
    IN IF ~IsSome(rest) THEN None
       ELSE LET r == Unwrap(rest)
                slash_pos == find(r, "/")
            IN IF ~IsSome(slash_pos) THEN None
               ELSE Some(<<SubSeq(r, 1, Unwrap(slash_pos) - 1),
                           SubSeq(r, Unwrap(slash_pos) + 1, Len(r))>>)

\* chars().zip().take_while(a == b).count()
RECURSIVE common_len(_, _)
common_len(a, b) ==
    IF a = <<>> \/ b = <<>> \/ Head(a) # Head(b) THEN 0
    ELSE 1 + common_len(Tail(a), Tail(b))

\* How a call of find_common_prefix ends: it returns Some((bucket, prefix))
\* ("some"), returns None ("none"), or panics in String::truncate ("panic").
PrefixOutcome(tag, bucket, common_prefix) ==
    [tag |-> tag, bucket |-> bucket, common_prefix |-> common_prefix]

\* The loop of find_common_prefix over the paths after the first: "none" as
\* soon as a path does not parse or names another bucket; else common_prefix
\* is truncated to common_len, a count of characters handed to truncate as a
\* count of bytes.
RECURSIVE common_prefix_loop(_, _, _)
common_prefix_loop(bucket, common_prefix, paths) ==
    IF paths = <<>> THEN PrefixOutcome("some", bucket, common_prefix)
    ELSE LET p == parse_s3_url(Head(paths))
         IN IF ~IsSome(p) THEN PrefixOutcome("none", <<>>, <<>>)
            ELSE IF Unwrap(p)[1] # bucket THEN PrefixOutcome("none", <<>>, <<>>)
            ELSE LET truncated ==
                         truncate(common_prefix, common_len(common_prefix, Unwrap(p)[2]))
                 IN IF ~IsSome(truncated) THEN PrefixOutcome("panic", <<>>, <<>>)
                    ELSE common_prefix_loop(bucket, Unwrap(truncated), Tail(paths))

\* find_common_prefix, the whole call: after the loop the common prefix is cut
\* back to just after its last '/', or cleared when it holds none.
find_common_prefix_call(paths) ==
    IF paths = <<>> THEN PrefixOutcome("none", <<>>, <<>>)
    ELSE LET first == parse_s3_url(Head(paths))
         IN IF ~IsSome(first) THEN PrefixOutcome("none", <<>>, <<>>)
            ELSE LET looped ==
                         common_prefix_loop(Unwrap(first)[1], Unwrap(first)[2], Tail(paths))
                     cp == looped.common_prefix
                     last_slash == rfind(cp, "/")
                 IN IF looped.tag # "some" THEN looped
                    ELSE PrefixOutcome("some", looped.bucket,
                                       IF IsSome(last_slash)
                                       THEN SubSeq(cp, 1, Unwrap(last_slash))
                                       ELSE <<>>)

\* find_common_prefix as its caller sees it when it returns:
\* Some(<<bucket, directory prefix>>), or None for an empty batch, an
\* unparsable path or two buckets.
find_common_prefix(paths) ==
    LET call == find_common_prefix_call(paths)
    IN IF call.tag = "some" THEN Some(<<call.bucket, call.common_prefix>>) ELSE None

\* format!("s3://{}/{}", bucket, key)
S3Url(bucket, key) == S3Scheme \o bucket \o <<"/">> \o key

\* Mutant: the lookup without the s3a:// normalisation.
S3FileCache_exists_raw(existing, path) == path \in existing
\* S3FileCache::exists: lookup of the path with s3a:// rewritten to s3://.
S3FileCache_exists(existing, path) ==
    LET rest == strip_prefix(path, S3aScheme)
        normalized == IF IsSome(rest) THEN S3Scheme \o Unwrap(rest) ELSE path
    IN normalized \in existing

\* Mutant: the checker itself takes a failed probe for an absent file.
FileIOExistenceChecker_exists_lenient(probe) == Some(unwrap_or_false(probe))
\* FileIOExistenceChecker::exists, Ok(self.file_io.exists(path).await?), for
\* the outcome of the FileIO probe: Ok(b) is handed on as Ok(b), and an error
\* leaves through `?` as the error of the call (None).
FileIOExistenceChecker_exists(probe) ==
    IF IsSome(probe) THEN Some(Unwrap(probe)) ELSE None

\* Mutant: a path outside the base URL is an error.
PreloadedExistenceChecker_exists_strict(base_url, suffixes, path) ==
    LET suffix == strip_prefix(path, base_url)
    IN IF IsSome(suffix) THEN Some(Unwrap(suffix) \in suffixes) ELSE None
\* PreloadedExistenceChecker::exists: Ok(the path starts with base_url and
\* what follows is one of the preloaded suffixes).  The result is always Ok.
PreloadedExistenceChecker_exists(base_url, suffixes, path) ==
    LET suffix == strip_prefix(path, base_url)
    IN Some(IsSome(suffix) /\ Unwrap(suffix) \in suffixes)

\* The decimal digits, and the value of one.
DecimalDigits == <<"0", "1", "2", "3", "4", "5", "6", "7", "8", "9">>
to_digit(c) == (CHOOSE i \in 1..Len(DecimalDigits) : DecimalDigits[i] = c) - 1
IsDigit(c) == \E i \in 1..Len(DecimalDigits) : DecimalDigits[i] = c
RECURSIVE from_digits(_)
from_digits(d) ==
    IF d = <<>> THEN 0
    ELSE 10 * from_digits(SubSeq(d, 1, Len(d) - 1)) + to_digit(d[Len(d)])
\* str::parse::<i64>: an optional sign and one or more decimal digits, nothing
\* else; None for the parse error.  The texts parsed here have at most
\* MaxIdLen characters, so that none is out of the range of i64.
parse_i64(s) ==
    LET signed == s # <<>> /\ Head(s) \in {"+", "-"}
        digits == IF signed THEN Tail(s) ELSE s
    IN IF digits = <<>> \/ \E i \in 1..Len(digits) : ~IsDigit(digits[i]) THEN None
       ELSE Some(IF Head(s) = "-" THEN 0 - from_digits(digits) ELSE from_digits(digits))

\* ------------------------------------------------------------- environment
\* The table's bucket holds the manifest list, the manifests and the data
\* files.  A data file that a manifest references is present (in Store) or
\* missing; one object of the bucket is referenced by no manifest.
Bucket == <<"b">>
KeyPresent == <<"d", "/", "f">>
KeyMissing == <<"d", "/", "g">>
KeyUnreferenced == <<"d", "/", "h">>
Store == {<<Bucket, KeyPresent>>, <<Bucket, KeyUnreferenced>>}

\* Data-file paths the manifests may name: a present file written with the
\* s3a scheme, a missing file written with the s3 scheme.
PresentPath == S3aScheme \o Bucket \o <<"/">> \o KeyPresent
MissingPath == S3Url(Bucket, KeyMissing)
DataPaths == {PresentPath, MissingPath}

\* snapshot.manifest_list(): the manifest list of the table's snapshot.
ManifestListLocations == {S3Url(Bucket, <<"m", "/", "l">>)}
\* Manifest-list locations of tables of every kind: s3, s3a, an s3 URL with
\* nothing after the bucket, and a location of another store.
AnyManifestListLocations ==
    ManifestListLocations
    \cup {S3aScheme \o Bucket \o <<"/", "m", "/", "l">>,
          S3Scheme \o Bucket,
          <<"m", ":", "/", "/">> \o Bucket \o <<"/", "m", "/", "l">>}

Digit == <<"1", "2", "3", "4", "5", "6", "7", "8", "9">>
\* manifest_file.manifest_path of the j-th entry of the manifest list.
ManifestPath(j) == S3Url(Bucket, <<"m", "/", Digit[j]>>)

\* Manifest entries: a live entry names either file, a Deleted entry names
\* the file that is gone from the store.
ManifestEntry ==
    [status : {"Added", "Existing"}, file_path : DataPaths]
    \cup [status : {"Deleted"}, file_path : {MissingPath}]

SeqsUpTo(S, n) == UNION {[1..k -> S] : k \in 0..n}

\* What fetching and parsing one manifest yields: its entries (at most n), or
\* a failure of fetch_bytes ("fetch_err") or of Manifest::parse_avro ("parse_err").
ManifestFile(n) ==
    {[fetch |-> "ok", entries |-> e] : e \in SeqsUpTo(ManifestEntry, n)}
    \cup {[fetch |-> f, entries |-> <<>>] : f \in {"fetch_err", "parse_err"}}

\* The manifest lists of at most n manifests holding at most k entries between them.
RECURSIVE ManifestListsOf(_, _)
ManifestListsOf(n, k) ==
    IF n = 0 THEN {<<>>}
    ELSE {<<>>} \cup
         UNION {{<<f>> \o rest : rest \in ManifestListsOf(n - 1, k - Len(f.entries))} :
                f \in ManifestFile(k)}

\* The snapshots explored.
ManifestLists == ManifestListsOf(MaxManifests, MaxEntries)

\* A data file kept in a second bucket.
OtherBucket == <<"c">>
OtherBucketPath == S3Url(OtherBucket, KeyPresent)

\* A data file kept in a store that is not S3.
OtherSchemePath == <<"m", ":", "/", "/">> \o Bucket \o <<"/">> \o KeyPresent

\* The manifest lists of at most n readable manifests holding at most k
\* entries between them, every entry Added and naming a path of E.
RECURSIVE AddedListsOf(_, _, _)
AddedListsOf(E, n, k) ==
    IF n = 0 THEN {<<>>}
    ELSE {<<>>} \cup
         UNION {{<<[fetch |-> "ok", entries |-> e]>> \o rest :
                     rest \in AddedListsOf(E, n - 1, k - Len(e))} :
                e \in SeqsUpTo([status : {"Added"}, file_path : E], k)}

\* Paths handed to find_common_prefix on its own: s3 and s3a URLs of one
\* bucket at different depths, a URL of another bucket, a URL without a '/'
\* after the bucket, a URL of another scheme, and keys outside ASCII.
PrefixPaths ==
    {PresentPath, MissingPath, OtherBucketPath,
     S3Url(Bucket, <<"f">>),
     S3Scheme \o Bucket,
     <<"m", ":", "/", "/">> \o Bucket \o <<"/">> \o KeyPresent,
     S3Url(Bucket, <<"é", "/", "f">>),
     S3Url(Bucket, <<"é", "/", "g">>),
     S3Url(Bucket, <<"d", "é">>)}

\* Strings handed to parse_s3_url on its own: a scheme, a near-scheme or
\* nothing, followed by at most MaxRest characters.
UrlHeads ==
    {S3Scheme, S3aScheme, <<"s", "3", ":", "/">>, <<"m", ":", "/", "/">>,
     <<"x">> \o S3Scheme, <<>>}
UrlPaths == {h \o r : h \in UrlHeads, r \in SeqsUpTo({"b", "/", "é"}, MaxRest)}

\* Keys a listing can have returned, one a prefix of the next, and the paths
\* looked up in the cache or the preloaded checker: each key under s3:// and
\* s3a://, the directory alone, the same key in another bucket or scheme.
CacheKeys == {<<"d">>, <<"d", "/", "f">>, <<"d", "/", "f", "x">>}
CacheListings == SUBSET {S3Url(Bucket, k) : k \in CacheKeys}
LookupPaths ==
    {h \o Bucket \o <<"/">> \o k :
         h \in {S3Scheme, S3aScheme, <<"m", ":", "/", "/">>},
         k \in CacheKeys \cup {<<"d", "/">>}}
    \cup {S3Url(OtherBucket, k) : k \in CacheKeys}
PreloadedBases == {S3Url(Bucket, <<>>), S3Url(Bucket, <<"d", "/">>)}
PreloadedSuffixes == SUBSET {<<"f">>, <<"f", "x">>, <<"d", "/", "f">>}

\* Result<T>: Ok(value) or Err(error).
ResultOk(value) == [tag |-> "Ok", value |-> value]
ResultErr(e) == [tag |-> "Err", error |-> e]
\* The items of a stream handed to display_stream: two serialisable values
\* and two errors.
StreamValues == [name : {"first", "third"}, value : {"1"}]
StreamItems ==
    {ResultOk(v) : v \in StreamValues}
    \cup {ResultErr(e) : e \in {"test error", "other error"}}

\* The snapshots a table may hold, each with its own manifest list, and the
\* tables: any set of them, the current snapshot none or one of the set.
SnapshotIds == {7, 0 - 7}
Snapshot(id) ==
    [snapshot_id |-> id,
     manifest_list |-> S3Url(Bucket, IF id < 0 THEN <<"m", "/", "n">> ELSE <<"m", "/", "l">>)]
Tables ==
    {t \in [snapshots : SUBSET {Snapshot(id) : id \in SnapshotIds},
            current_snapshot_id : {None} \cup {Some(id) : id \in SnapshotIds}] :
         \A id \in SnapshotIds :
             t.current_snapshot_id = Some(id) => Snapshot(id) \in t.snapshots}
\* The <SNAPSHOT_ID> argument: "current", or any text of at most MaxIdLen
\* characters out of two digits, the signs and a letter.
CurrentId == <<"c", "u", "r", "r", "e", "n", "t">>
SnapshotIdArgs == {CurrentId} \cup SeqsUpTo({"0", "7", "+", "-", "x"}, MaxIdLen)
\* Option<SnapshotCmd>: no subcommand, or files with or without --verify.
SnapshotCmds == {None} \cup {Some([verify |-> v]) : v \in BOOLEAN}

\* The answers of a store to ListObjectsV2, page by page.  A page holds objects
\* (with a key, or without one), the is_truncated flag (it may be absent), and
\* the token of the next page or none.  Every page but the last is flagged
\* truncated, with or without a token; the last is not, or is with no token.
ListedObjects == {Some(KeyPresent), Some(KeyMissing), None}
ListPages(n, last) ==
    IF n < last
    THEN [contents : SUBSET ListedObjects, is_truncated : {Some(TRUE)},
          next_continuation_token : {Some(n + 1), None}]
    ELSE [contents : SUBSET ListedObjects, is_truncated : {Some(TRUE), Some(FALSE), None},
          next_continuation_token : {None}]
Listings ==
    UNION {{pages \in [1..last -> UNION {ListPages(n, last) : n \in 1..last}] :
                \A n \in 1..last : pages[n] \in ListPages(n, last)} :
           last \in 1..MaxPages}

\* FileIO::into_builder().into_parts(): the scheme and the property keys set.
FileIOs ==
    [scheme : {"s3", "s3a", "memory"},
     props : SUBSET {"s3.access-key-id", "s3.secret-access-key", "s3.region",
                     "s3.session-token"}]

\* Mutant: a client built only when a session token is set too.
s3_client_with_session_token(file_io) ==
    IF file_io.scheme # "s3" /\ file_io.scheme # "s3a" THEN None
    ELSE IF "s3.access-key-id" \notin file_io.props THEN None
    ELSE IF "s3.secret-access-key" \notin file_io.props THEN None
    ELSE IF "s3.region" \notin file_io.props THEN None
    ELSE IF "s3.session-token" \notin file_io.props THEN None
    ELSE Some("client")
\* s3_client_from_file_io / s3_client_from_props: a client is built exactly
\* for an s3 or s3a FileIO holding key id, secret and region.
s3_client_from_file_io(file_io) ==
    IF file_io.scheme # "s3" /\ file_io.scheme # "s3a" THEN None
    ELSE IF "s3.access-key-id" \notin file_io.props THEN None
    ELSE IF "s3.secret-access-key" \notin file_io.props THEN None
    ELSE IF "s3.region" \notin file_io.props THEN None
    ELSE Some("client")

\* FileIO::exists(path) on an unchanged store, when the probe itself succeeds:
\* Ok(true) when the object is there, Ok(false) when it is not.  A location
\* that names no object of the store is absent.
FileIOExists(path) ==
    LET p == parse_s3_url(path)
    IN Some(IsSome(p) /\ <<Unwrap(p)[1], Unwrap(p)[2]>> \in Store)

\* Mutant: a probe answers anything, whatever the store holds.
ProbeOutcomesAny(path) == {Some(TRUE), Some(FALSE), None}
\* The outcomes of one probe: the store's answer, or an error (None).
ProbeOutcomes(path) == {FileIOExists(path), None}

\* The keys ListObjectsV2 returns for (bucket, prefix), in the store's order.
KeyOrder == <<KeyPresent, KeyMissing, KeyUnreferenced>>
RECURSIVE SelectKeys(_, _, _)
SelectKeys(keys, bucket, prefix) ==
    IF keys = <<>> THEN <<>>
    ELSE LET k == Head(keys)
             rest == SelectKeys(Tail(keys), bucket, prefix)
         IN IF <<bucket, k>> \in Store /\ StartsWith(k, prefix)
            THEN <<k>> \o rest ELSE rest
ListedKeys(bucket, prefix) == SelectKeys(KeyOrder, bucket, prefix)

\* The manifest's live data files: entries Added or Existing, in entry order.
\* Each carries the position (m, e) it came from, which the program does not
\* keep: it is history for stating the properties.
RECURSIVE LiveFrom(_, _, _)
LiveFrom(entries, m, e) ==
    IF e > Len(entries) THEN <<>>
    ELSE LET entry == entries[e]
             rest == LiveFrom(entries, m, e + 1)
         IN IF entry.status = "Added" \/ entry.status = "Existing"
            THEN <<[path |-> entry.file_path, m |-> m, e |-> e]>> \o rest
            ELSE rest
\* Mutant: the status filter left out.
data_files_unfiltered(entries, m) ==
    [e \in 1..Len(entries) |-> [path |-> entries[e].file_path, m |-> m, e |-> e]]
data_files_of(entries, m) == LiveFrom(entries, m, 1)

\* Mutant: a Manifest record reported missing.
FileRecordManifestMissing(type, path, exists) ==
    [type |-> type, path |-> path,
     exists |-> IF type = "manifest" /\ IsSome(exists) THEN Some(FALSE) ELSE exists]
\* FileRecord { type, path, exists }
FileRecord(type, path, exists) == [type |-> type, path |-> path, exists |-> exists]

\* ------------------------------------------------------------------- state
VARIABLES
    manifest_list_location, \* snapshot.manifest_list()
    manifest_list_fetch,    \* "ok", "fetch_err" or "parse_err": the manifest list
    manifests,              \* the manifest list's entries, each a ManifestFile
    pc,                     \* where the command is
    verify,                 \* --verify
    strategy,               \* "none", "streaming" or "batched"
    next_manifest,          \* buffered(7): next list position to admit
    head_manifest,          \* buffered(7): next list position to yield
    fetched,                \* buffered(7): admitted positions whose fetch completed
    data_files,             \* iterate_files: the current manifest's live paths
    next_data,              \* buffered(13): next data file to admit
    head_data,              \* buffered(13): next data file to yield
    probed,                 \* buffered(13): completed tasks, position -> exists
    manifest_records,       \* batched: the buffered Manifest records
    all_data_files,         \* batched: the accumulated live paths
    listing,                \* list_objects_with_prefix: <<bucket, prefix>> or None
    continuation_token,     \* list_objects_with_prefix: None or Some(offset)
    existing_files,         \* list_objects_with_prefix / S3FileCache: listed URLs
    emitted,                \* batched: records of the current output loop written
    missing_count,          \* Data records written with exists = Some(false)
    out,                    \* the records written to the output, in order
    result,                 \* "running", "Ok", "Failed" (ExpectedError::Failed), "Err", "Panic"
    error,                  \* which step raised the fatal error ("none" if none)
    \* history, kept for stating the properties:
    out_src,                \* per record of out: manifest and entry, probe outcome
    probes,                 \* the data files an existence probe was started for
    lookups,                \* the data files looked up in the S3FileCache
    probe_errors,           \* probes that ended in an error during this walk
    previous,               \* None, or Some(what the previous run of the command did)
    \* a function of s3_lister.rs called on its own:
    batch,                  \* the paths handed to it
    returned                \* None before the call, Some(how the call ended) after

vars ==
    <<manifest_list_location, manifest_list_fetch, manifests, pc, verify, strategy,
      next_manifest, head_manifest, fetched, data_files, next_data, head_data, probed,
      manifest_records, all_data_files, listing, continuation_token, existing_files,
      emitted, missing_count, out, result, error, out_src, probes, lookups,
      probe_errors, previous, batch, returned>>

\* What no step of a walk changes: the snapshot, the record of the previous
\* run, and the arguments and result of a function called on its own.
snapshot_vars ==
    <<manifest_list_location, manifest_list_fetch, manifests, previous, batch, returned>>
manifest_window_vars == <<next_manifest, head_manifest, fetched>>
data_window_vars == <<data_files, next_data, head_data, probed>>
batched_vars ==
    <<manifest_records, all_data_files, listing, continuation_token, existing_files,
      emitted>>
history_vars == <<probes, lookups, probe_errors>>

\* The walker's state before the command runs.
WalkerInit ==
    /\ pc = "idle"
    /\ verify = FALSE
    /\ strategy = "none"
    /\ next_manifest = 1
    /\ head_manifest = 1
    /\ fetched = {}
    /\ data_files = <<>>
    /\ next_data = 1
    /\ head_data = 1
    /\ probed = <<>>
    /\ manifest_records = <<>>
    /\ all_data_files = <<>>
    /\ listing = None
    /\ continuation_token = None
    /\ existing_files = {}
    /\ emitted = 0
    /\ missing_count = 0
    /\ out = <<>>
    /\ result = "running"
    /\ error = "none"
    /\ out_src = <<>>
    /\ probes = {}
    /\ lookups = {}
    /\ probe_errors = 0

\* A snapshot of the table: where its manifest list is and what the store
\* returns for the manifest list and for each manifest it names.
Init ==
    /\ manifest_list_location \in ManifestListLocations
    /\ manifest_list_fetch \in {"ok", "fetch_err", "parse_err"}
    /\ manifests \in ManifestLists
    /\ manifest_list_fetch # "ok" => manifests \in ManifestListsOf(MaxManifests, 0)
    /\ previous = None
    /\ batch = <<>>
    /\ returned = None
    /\ WalkerInit

NoSrc == [m |-> 0, e |-> 0, probe |-> "none"]

\* output.display_object(&record): one record written to the output.
Display(record, src) ==
    /\ out' = Append(out, record)
    /\ out_src' = Append(out_src, src)

\* handle_snapshot_files_streaming, one turn of its loop over the stream: count
\* the record if it is a missing file, then display it.
Relay(record, src) ==
    /\ missing_count' =
           IF record.exists = Some(FALSE) THEN missing_count + 1 ELSE missing_count
    /\ Display(record, src)

\* The command panics: the process is aborted.
Panic(step) ==
    /\ result' = "Panic"
    /\ error' = step
    /\ pc' = "done"

\* Mutant: with files counted missing the verdict is returned in place of the
\* error.
FatalUnlessMissing(step) ==
    /\ result' = IF verify /\ missing_count > 0 THEN "Failed" ELSE "Err"
    /\ error' = step
    /\ pc' = "done"
\* The command returns Err(e) where e is not an ExpectedError.
Fatal(step) ==
    /\ result' = "Err"
    /\ error' = step
    /\ pc' = "done"

\* handle_snapshot_files: the strategy chosen for a verify flag and a FileIO.
ChooseStrategy(v, file_io) ==
    LET use_s3_optimization == v /\ IsSome(parse_s3_url(manifest_list_location))
    IN IF use_s3_optimization /\ IsSome(s3_client_from_file_io(file_io))
       THEN "batched" ELSE "streaming"

\* handle_snapshot_files: choose the strategy.
handle_snapshot_files(v, file_io) ==
    /\ pc = "idle"
    /\ verify' = v
    /\ strategy' = ChooseStrategy(v, file_io)
    /\ pc' = "manifest_list_record"
    /\ UNCHANGED <<snapshot_vars, manifest_window_vars, data_window_vars, batched_vars,
                   missing_count, out, result, error, out_src, history_vars>>

\* Mutant: existence asserted whether or not verify was requested.
always_exists == Some(TRUE)
\* Metadata files are reported as existing exactly when verification is on.
implicitly_exists == IF verify THEN Some(TRUE) ELSE None
\* Mutant: the batched strategy keeps the ManifestList record back.
EmitManifestListRecordBuffered ==
    /\ pc = "manifest_list_record"
    /\ IF strategy = "batched"
       THEN UNCHANGED <<out, out_src, missing_count>>
       ELSE Relay(FileRecord("manifest-list", manifest_list_location, implicitly_exists),
                  NoSrc)
    /\ pc' = "manifest_list"
    /\ UNCHANGED <<snapshot_vars, verify, strategy, manifest_window_vars,
                   data_window_vars, batched_vars, result, error, history_vars>>
\* The ManifestList record, first thing of either strategy.
EmitManifestListRecord ==
    /\ pc = "manifest_list_record"
    /\ IF strategy = "batched"
       THEN /\ Display(FileRecord("manifest-list", manifest_list_location, Some(TRUE)),
                       NoSrc)
            /\ UNCHANGED missing_count
       ELSE Relay(FileRecord("manifest-list", manifest_list_location, implicitly_exists),
                  NoSrc)
    /\ pc' = "manifest_list"
    /\ UNCHANGED <<snapshot_vars, verify, strategy, manifest_window_vars,
                   data_window_vars, batched_vars, result, error, history_vars>>

\* Mutant: a failure of the manifest list not propagated.
manifest_list_result_ignored == "ok"
\* The outcome of fetch_bytes(manifest list)? and of
\* ManifestList::parse_with_version(..)?: "ok", or the step that failed.
manifest_list_result == manifest_list_fetch

\* fetch_bytes(manifest list) and ManifestList::parse_with_version.
FetchManifestList ==
    /\ pc = "manifest_list"
    /\ IF manifest_list_result = "ok"
       THEN /\ pc' = "manifests"
            /\ UNCHANGED <<result, error>>
       ELSE Fatal(manifest_list_result)
    /\ UNCHANGED <<snapshot_vars, verify, strategy, manifest_window_vars,
                   data_window_vars, batched_vars, missing_count, out, out_src,
                   history_vars>>

\* Mutant: every manifest fetch is started at once.
ManifestWindowUnbounded == next_manifest <= Len(manifests)
\* buffered(7) has room and the manifest list has another entry.
ManifestWindowOpen ==
    /\ next_manifest <= Len(manifests)
    /\ next_manifest - head_manifest < ManifestWindow

\* buffered(7) admits the next manifest fetch.
StartManifestFetch ==
    /\ pc = "manifests"
    /\ ManifestWindowOpen
    /\ next_manifest' = next_manifest + 1
    /\ UNCHANGED <<snapshot_vars, pc, verify, strategy, head_manifest, fetched,
                   data_window_vars, batched_vars, missing_count, out, result, error,
                   out_src, history_vars>>

\* A manifest fetch in flight completes (with bytes or with an error).
CompleteManifestFetch(j) ==
    /\ pc = "manifests"
    /\ ~ManifestWindowOpen
    /\ j \in head_manifest..(next_manifest - 1)
    /\ j \notin fetched
    /\ fetched' = fetched \cup {j}
    /\ UNCHANGED <<snapshot_vars, pc, verify, strategy, next_manifest, head_manifest,
                   data_window_vars, batched_vars, missing_count, out, result, error,
                   out_src, history_vars>>

\* Mutant: a failed fetch leaves the window as soon as it has completed.
YieldableManifestsFailFast ==
    LET failed == {j \in fetched : j >= head_manifest /\ manifests[j].fetch # "ok"}
    IN IF failed # {} THEN failed
       ELSE IF head_manifest \in fetched THEN {head_manifest} ELSE {}
\* Mutant: buffer_unordered(7), results leave as they complete.
YieldableManifestsUnordered == fetched
\* What stream.next() of buffered(7) can return now: the result at the head
\* of the window once its fetch has completed (results leave in list order).
YieldableManifests == IF head_manifest \in fetched THEN {head_manifest} ELSE {}

\* Mutant: a failed manifest skipped instead of propagated.
manifest_result_ignored(j) == "ok"
\* The outcome of `bytes_result?` and of `Manifest::parse_avro(..)?` for the
\* manifest at list position j: "ok", or the step that failed.
manifest_result(j) == manifests[j].fetch

\* iterate_files, one turn of the manifest loop: the Manifest record, then the
\* fetch result and the parse, then the live data files of the manifest.
YieldManifestStreaming(j) ==
    /\ pc = "manifests"
    /\ strategy = "streaming"
    /\ ~ManifestWindowOpen
    /\ j \in YieldableManifests
    /\ Relay(FileRecord("manifest", ManifestPath(j), implicitly_exists),
             [m |-> j, e |-> 0, probe |-> "none"])
    /\ head_manifest' = head_manifest + 1
    /\ IF manifest_result(j) = "ok"
       THEN /\ data_files' = data_files_of(manifests[j].entries, j)
            /\ next_data' = 1
            /\ head_data' = 1
            /\ probed' = <<>>
            /\ pc' = "data"
            /\ UNCHANGED <<result, error>>
       ELSE /\ Fatal(manifest_result(j))
            /\ UNCHANGED data_window_vars
    /\ UNCHANGED <<snapshot_vars, verify, strategy, next_manifest, fetched,
                   batched_vars, history_vars>>

\* Mutant: every existence task of the manifest is started at once.
ProbeWindowUnbounded == next_data <= Len(data_files)
\* Mutant: no existence task is ever admitted.
ProbeWindowShut == FALSE
\* buffered(13) has room and the manifest has another live data file.
ProbeWindowOpen ==
    /\ next_data <= Len(data_files)
    /\ next_data - head_data < ProbeWindow

\* buffered(13) admits the next existence task; with verify it starts a probe.
StartProbe ==
    /\ pc = "data"
    /\ ProbeWindowOpen
    /\ next_data' = next_data + 1
    /\ probes' = IF verify THEN probes \cup {data_files[next_data]} ELSE probes
    /\ UNCHANGED <<snapshot_vars, pc, verify, strategy, manifest_window_vars,
                   data_files, head_data, probed, batched_vars, missing_count, out,
                   result, error, out_src, lookups, probe_errors>>

\* The existence value of a task: Some(file_io.exists(path).unwrap_or(false))
\* with verify, None without.
TaskExists(outcome) == IF verify THEN Some(unwrap_or_false(outcome)) ELSE None

\* An existence task in flight completes.
CompleteProbe(k, outcome) ==
    /\ pc = "data"
    /\ ~ProbeWindowOpen
    /\ k \in head_data..(next_data - 1)
    /\ k \notin DOMAIN probed
    /\ outcome \in ProbeOutcomes(data_files[k].path)
    /\ ~verify => outcome # None
    /\ probed' = (k :> [exists |-> TaskExists(outcome),
                        probe |-> IF ~verify THEN "none"
                                  ELSE IF outcome = None THEN "error"
                                  ELSE IF Unwrap(outcome) THEN "present" ELSE "absent"])
                 @@ probed
    /\ probe_errors' = IF verify /\ outcome = None THEN probe_errors + 1 ELSE probe_errors
    /\ UNCHANGED <<snapshot_vars, pc, verify, strategy, manifest_window_vars,
                   data_files, next_data, head_data, batched_vars, missing_count, out,
                   result, error, out_src, probes, lookups>>

\* Mutant: buffer_unordered(13), results leave as they complete.
YieldableDataUnordered == DOMAIN probed
\* What data_stream.next() of buffered(13) can return now: the task at the
\* head of the window once it has completed (results leave in entry order).
YieldableData == IF head_data \in DOMAIN probed THEN {head_data} ELSE {}

\* iterate_files yields the next Data record, in entry order.
YieldData(k) ==
    /\ pc = "data"
    /\ ~ProbeWindowOpen
    /\ k \in YieldableData
    /\ Relay(FileRecord("data", data_files[k].path, probed[k].exists),
             [m |-> data_files[k].m, e |-> data_files[k].e, probe |-> probed[k].probe])
    /\ head_data' = head_data + 1
    /\ UNCHANGED <<snapshot_vars, pc, verify, strategy, manifest_window_vars,
                   data_files, next_data, probed, batched_vars, result, error,
                   history_vars>>

\* Mutant: the data stream left before its last record.
EndDataStreamEarly ==
    /\ pc = "data"
    /\ head_data >= Len(data_files)
    /\ pc' = "manifests"
    /\ UNCHANGED <<snapshot_vars, verify, strategy, manifest_window_vars,
                   data_window_vars, batched_vars, missing_count, out, result, error,
                   out_src, history_vars>>
\* The data stream of the current manifest is exhausted: back to the manifests.
EndDataStream ==
    /\ pc = "data"
    /\ head_data > Len(data_files)
    /\ pc' = "manifests"
    /\ UNCHANGED <<snapshot_vars, verify, strategy, manifest_window_vars,
                   data_window_vars, batched_vars, missing_count, out, result, error,
                   out_src, history_vars>>

\* Mutant: one missing file tolerated.
VerdictOffByOne(check) == IF check /\ missing_count > 1 THEN "Failed" ELSE "Ok"
\* The verdict after the last record: ExpectedError::Failed when files are missing.
Verdict(check) == IF check /\ missing_count > 0 THEN "Failed" ELSE "Ok"

\* Mutant: the loop left at the first missing file.
StreamCutShort == head_manifest > Len(manifests) \/ missing_count > 0
\* stream.next() returns None: every manifest of the list has been yielded.
StreamExhausted == head_manifest > Len(manifests)

\* handle_snapshot_files_streaming: the stream ended without an error.
EndStreaming ==
    /\ pc = "manifests"
    /\ strategy = "streaming"
    /\ StreamExhausted
    /\ result' = Verdict(verify)
    /\ pc' = "done"
    /\ UNCHANGED <<snapshot_vars, verify, strategy, manifest_window_vars,
                   data_window_vars, batched_vars, missing_count, out, error, out_src,
                   history_vars>>

\* ---------------------------------------------------------------- batched
\* handle_snapshot_files_with_s3_cache, one turn of the manifest loop: buffer
\* the Manifest record, then the fetch result and the parse, then accumulate
\* the live data files of the manifest.
YieldManifestBatched(j) ==
    /\ pc = "manifests"
    /\ strategy = "batched"
    /\ ~ManifestWindowOpen
    /\ j \in YieldableManifests
    /\ manifest_records' =
           Append(manifest_records,
                  [record |-> FileRecord("manifest", ManifestPath(j), Some(TRUE)),
                   m |-> j])
    /\ head_manifest' = head_manifest + 1
    /\ IF manifest_result(j) = "ok"
       THEN /\ all_data_files' = all_data_files \o data_files_of(manifests[j].entries, j)
            /\ UNCHANGED <<pc, result, error>>
       ELSE /\ Fatal(manifest_result(j))
            /\ UNCHANGED all_data_files
    /\ UNCHANGED <<snapshot_vars, verify, strategy, next_manifest, fetched,
                   data_window_vars, listing, continuation_token, existing_files,
                   emitted, missing_count, out, out_src, history_vars>>

\* The manifest loop of the batched path ends: on to building the cache.
EndManifestsBatched ==
    /\ pc = "manifests"
    /\ strategy = "batched"
    /\ StreamExhausted
    /\ pc' = "cache"
    /\ UNCHANGED <<snapshot_vars, verify, strategy, manifest_window_vars,
                   data_window_vars, batched_vars, missing_count, out, result, error,
                   out_src, history_vars>>

Paths(files) == [i \in 1..Len(files) |-> files[i].path]

\* Mutant: without a common prefix the cache is left empty and the command
\* goes on.
S3FileCache_new_or_empty ==
    /\ pc = "cache"
    /\ IF IsSome(find_common_prefix(Paths(all_data_files)))
       THEN /\ listing' = find_common_prefix(Paths(all_data_files))
            /\ pc' = "listing"
       ELSE /\ pc' = "manifest_records"
            /\ UNCHANGED listing
    /\ UNCHANGED <<snapshot_vars, verify, strategy, manifest_window_vars,
                   data_window_vars, manifest_records, all_data_files,
                   continuation_token, existing_files, emitted, missing_count, out,
                   out_src, history_vars, result, error>>
\* S3FileCache::new up to the listing: the common prefix of the collected
\* paths, or the error "Could not determine common S3 prefix".
S3FileCache_new ==
    /\ pc = "cache"
    /\ LET cp == find_common_prefix(Paths(all_data_files))
       IN IF find_common_prefix_call(Paths(all_data_files)).tag = "panic"
          THEN /\ Panic("prefix")
               /\ UNCHANGED listing
          ELSE IF IsSome(cp)
          THEN /\ listing' = cp
               /\ pc' = "listing"
               /\ UNCHANGED <<result, error>>
          ELSE /\ Fatal("prefix")
               /\ UNCHANGED listing
    /\ UNCHANGED <<snapshot_vars, verify, strategy, manifest_window_vars,
                   data_window_vars, manifest_records, all_data_files,
                   continuation_token, existing_files, emitted, missing_count, out,
                   out_src, history_vars>>

\* Mutant: the first page taken for the whole listing.
ListResponseFirstPage(bucket, prefix, token) ==
    LET keys == ListedKeys(bucket, prefix)
        last == IF PageSize < Len(keys) THEN PageSize ELSE Len(keys)
    IN [contents |-> {keys[i] : i \in 1..last},
        is_truncated |-> FALSE,
        next_continuation_token |-> None]
\* The store's answer to one ListObjectsV2 request: the keys of the page that
\* starts at the token's offset, and the token of the next page when there is one.
ListResponse(bucket, prefix, token) ==
    LET keys == ListedKeys(bucket, prefix)
        offset == IF IsSome(token) THEN Unwrap(token) ELSE 0
        last == IF offset + PageSize < Len(keys) THEN offset + PageSize ELSE Len(keys)
    IN [contents |-> {keys[i] : i \in (offset + 1)..last},
        is_truncated |-> last < Len(keys),
        next_continuation_token |-> IF last < Len(keys) THEN Some(last) ELSE None]

\* Mutant: a failed request taken for the end of the listing.
ListPageFailureIgnored(ok) ==
    /\ pc = "listing"
    /\ IF ok
       THEN LET response == ListResponse(Unwrap(listing)[1], Unwrap(listing)[2],
                                         continuation_token)
            IN /\ existing_files' =
                      existing_files
                      \cup {S3Url(Unwrap(listing)[1], key) : key \in response.contents}
               /\ IF response.is_truncated
                  THEN /\ continuation_token' = response.next_continuation_token
                       /\ pc' = pc
                  ELSE /\ pc' = "manifest_records"
                       /\ UNCHANGED continuation_token
               /\ UNCHANGED <<result, error>>
       ELSE /\ error' = "listing"
            /\ pc' = "manifest_records"
            /\ UNCHANGED <<result, existing_files, continuation_token>>
    /\ UNCHANGED <<snapshot_vars, verify, strategy, manifest_window_vars,
                   data_window_vars, manifest_records, all_data_files, listing,
                   emitted, missing_count, out, out_src, history_vars>>
\* list_objects_with_prefix, one turn of its loop: the request fails, or the
\* page's keys are inserted as s3://bucket/key.
ListPage(ok) ==
    /\ pc = "listing"
    /\ IF ok
       THEN LET response == ListResponse(Unwrap(listing)[1], Unwrap(listing)[2],
                                         continuation_token)
            IN /\ existing_files' =
                      existing_files
                      \cup {S3Url(Unwrap(listing)[1], key) : key \in response.contents}
               /\ IF response.is_truncated
                  THEN /\ continuation_token' = response.next_continuation_token
                       /\ pc' = pc
                  ELSE /\ pc' = "manifest_records"
                       /\ UNCHANGED continuation_token
               /\ UNCHANGED <<result, error>>
       ELSE /\ Fatal("listing")
            /\ UNCHANGED <<existing_files, continuation_token>>
    /\ UNCHANGED <<snapshot_vars, verify, strategy, manifest_window_vars,
                   data_window_vars, manifest_records, all_data_files, listing,
                   emitted, missing_count, out, out_src, history_vars>>

\* Mutant: a buffered Manifest record written while manifests are still read.
EmitManifestRecordEarly ==
    /\ pc \in {"manifests", "manifest_records"}
    /\ strategy = "batched"
    /\ emitted < Len(manifest_records)
    /\ Display(manifest_records[emitted + 1].record,
               [m |-> manifest_records[emitted + 1].m, e |-> 0, probe |-> "none"])
    /\ emitted' = emitted + 1
    /\ UNCHANGED <<snapshot_vars, pc, verify, strategy, manifest_window_vars,
                   data_window_vars, manifest_records, all_data_files, listing,
                   continuation_token, existing_files, missing_count, result, error,
                   history_vars>>
\* Mutant: the buffered Manifest records written last first.
EmitManifestRecordReversed ==
    /\ pc = "manifest_records"
    /\ emitted < Len(manifest_records)
    /\ Display(manifest_records[Len(manifest_records) - emitted].record,
               [m |-> manifest_records[Len(manifest_records) - emitted].m, e |-> 0,
                probe |-> "none"])
    /\ emitted' = emitted + 1
    /\ UNCHANGED <<snapshot_vars, pc, verify, strategy, manifest_window_vars,
                   data_window_vars, manifest_records, all_data_files, listing,
                   continuation_token, existing_files, missing_count, result, error,
                   history_vars>>
\* Phase 4: the buffered Manifest records are written, in order.
EmitManifestRecord ==
    /\ pc = "manifest_records"
    /\ emitted < Len(manifest_records)
    /\ Display(manifest_records[emitted + 1].record,
               [m |-> manifest_records[emitted + 1].m, e |-> 0, probe |-> "none"])
    /\ emitted' = emitted + 1
    /\ UNCHANGED <<snapshot_vars, pc, verify, strategy, manifest_window_vars,
                   data_window_vars, manifest_records, all_data_files, listing,
                   continuation_token, existing_files, missing_count, result, error,
                   history_vars>>

EndManifestRecords ==
    /\ pc = "manifest_records"
    /\ emitted = Len(manifest_records)
    /\ pc' = "data_records"
    /\ emitted' = 0
    /\ UNCHANGED <<snapshot_vars, verify, strategy, manifest_window_vars,
                   data_window_vars, manifest_records, all_data_files, listing,
                   continuation_token, existing_files, missing_count, out, result,
                   error, out_src, history_vars>>

\* Phase 5: one Data record per collected path, exists from the cache.
EmitDataRecord ==
    /\ pc = "data_records"
    /\ emitted < Len(all_data_files)
    /\ LET file == all_data_files[emitted + 1]
           exists == S3FileCache_exists(existing_files, file.path)
       IN /\ lookups' = lookups \cup {file}
          /\ missing_count' = IF ~exists THEN missing_count + 1 ELSE missing_count
          /\ Display(FileRecord("data", file.path, Some(exists)),
                     [m |-> file.m, e |-> file.e, probe |-> "none"])
    /\ emitted' = emitted + 1
    /\ UNCHANGED <<snapshot_vars, pc, verify, strategy, manifest_window_vars,
                   data_window_vars, manifest_records, all_data_files, listing,
                   continuation_token, existing_files, result, error, probes,
                   probe_errors>>

\* handle_snapshot_files_with_s3_cache returns: Failed when files are missing.
EndBatched ==
    /\ pc = "data_records"
    /\ emitted = Len(all_data_files)
    /\ result' = Verdict(TRUE)
    /\ pc' = "done"
    /\ UNCHANGED <<snapshot_vars, verify, strategy, manifest_window_vars,
                   data_window_vars, batched_vars, missing_count, out, error, out_src,
                   history_vars>>

\* What is kept of a run of the command that has ended.
RunRecord ==
    [strategy |-> strategy, out |-> out, out_src |-> out_src, result |-> result,
     missing_count |-> missing_count, error |-> error, probe_errors |-> probe_errors]

\* After a streaming run with verify, the command is run with verify a second
\* time on the same snapshot and the same store, now with a FileIO that holds
\* S3 credentials: what the first run wrote and returned is kept for
\* comparison, everything else starts afresh.
Rerun(file_io) ==
    /\ pc = "done"
    /\ verify
    /\ strategy = "streaming"
    /\ previous = None
    /\ IsSome(s3_client_from_file_io(file_io))
    /\ previous' = Some(RunRecord)
    /\ pc' = "manifest_list_record"
    /\ verify' = TRUE
    /\ strategy' = ChooseStrategy(TRUE, file_io)
    /\ next_manifest' = 1
    /\ head_manifest' = 1
    /\ fetched' = {}
    /\ data_files' = <<>>
    /\ next_data' = 1
    /\ head_data' = 1
    /\ probed' = <<>>
    /\ manifest_records' = <<>>
    /\ all_data_files' = <<>>
    /\ listing' = None
    /\ continuation_token' = None
    /\ existing_files' = {}
    /\ emitted' = 0
    /\ missing_count' = 0
    /\ out' = <<>>
    /\ result' = "running"
    /\ error' = "none"
    /\ out_src' = <<>>
    /\ probes' = {}
    /\ lookups' = {}
    /\ probe_errors' = 0
    /\ UNCHANGED <<manifest_list_location, manifest_list_fetch, manifests, batch,
                   returned>>

\* After a run, the command is run again with the same arguments on the same
\* snapshot and the same store: the same verify flag and, the choice being a
\* function of the flag, the FileIO and the location, the same strategy.
Repeat ==
    /\ pc = "done"
    /\ previous = None
    /\ previous' = Some(RunRecord)
    /\ pc' = "manifest_list_record"
    /\ UNCHANGED <<verify, strategy>>
    /\ next_manifest' = 1
    /\ head_manifest' = 1
    /\ fetched' = {}
    /\ data_files' = <<>>
    /\ next_data' = 1
    /\ head_data' = 1
    /\ probed' = <<>>
    /\ manifest_records' = <<>>
    /\ all_data_files' = <<>>
    /\ listing' = None
    /\ continuation_token' = None
    /\ existing_files' = {}
    /\ emitted' = 0
    /\ missing_count' = 0
    /\ out' = <<>>
    /\ result' = "running"
    /\ error' = "none"
    /\ out_src' = <<>>
    /\ probes' = {}
    /\ lookups' = {}
    /\ probe_errors' = 0
    /\ UNCHANGED <<manifest_list_location, manifest_list_fetch, manifests, batch,
                   returned>>

\* find_common_prefix called on a batch of paths.
CallFindCommonPrefix ==
    /\ returned = None
    /\ returned' = Some(find_common_prefix_call(batch))
    /\ UNCHANGED <<manifest_list_location, manifest_list_fetch, manifests, pc, verify,
                   strategy, manifest_window_vars, data_window_vars, batched_vars,
                   missing_count, out, result, error, out_src, history_vars, previous,
                   batch>>

CallUnchanged ==
    UNCHANGED <<manifest_list_location, manifest_list_fetch, manifests, pc, verify,
                strategy, manifest_window_vars, data_window_vars, batched_vars,
                missing_count, out, result, error, out_src, history_vars, previous,
                batch>>

\* FileIOExistenceChecker::exists called on a path whose FileIO probe has the
\* outcome batch.probe.
CallFileIOExistenceCheckerExists ==
    /\ returned = None
    /\ batch.fn = "FileIOExistenceChecker::exists"
    /\ returned' = Some(FileIOExistenceChecker_exists(batch.probe))
    /\ CallUnchanged

\* S3FileCache::exists called on a cache holding batch.existing.
CallS3FileCacheExists ==
    /\ returned = None
    /\ batch.fn = "S3FileCache::exists"
    /\ returned' = Some(S3FileCache_exists(batch.existing, batch.path))
    /\ CallUnchanged

\* PreloadedExistenceChecker::exists called on a checker built from
\* batch.base_url and batch.suffixes.
CallPreloadedExistenceCheckerExists ==
    /\ returned = None
    /\ batch.fn = "PreloadedExistenceChecker::exists"
    /\ returned' = Some(PreloadedExistenceChecker_exists(batch.base_url, batch.suffixes,
                                                         batch.path))
    /\ CallUnchanged

\* parse_s3_url called on a string.
CallParseS3Url ==
    /\ returned = None
    /\ batch.fn = "parse_s3_url"
    /\ returned' = Some(parse_s3_url(batch.url))
    /\ CallUnchanged

\* serde_json::to_string(&item): the item as one line of JSON.
to_string(item) ==
    <<"{", "\"name\"", ":", item.name, ",", "\"value\"", ":", item.value, "}">>

\* Mutant: an error item is skipped and the loop goes on.
display_stream_skipping_errors ==
    /\ returned = None
    /\ batch.fn = "display_stream"
    /\ IF batch.taken = Len(batch.items)
       THEN /\ returned' = Some(ResultOk("()"))
            /\ UNCHANGED <<batch, out>>
       ELSE /\ batch' = [batch EXCEPT !.taken = @ + 1]
            /\ out' = IF batch.items[batch.taken + 1].tag = "Err" THEN out
                      ELSE Append(out, to_string(batch.items[batch.taken + 1].value))
            /\ UNCHANGED returned
    /\ UNCHANGED <<manifest_list_location, manifest_list_fetch, manifests, pc, verify,
                   strategy, manifest_window_vars, data_window_vars, batched_vars,
                   missing_count, result, error, out_src, history_vars, previous>>
\* display_stream, one turn of its loop: stream.next() hands out the item at
\* the stream's cursor batch.taken; the end of the stream returns Ok(()), an
\* Err item returns that error through `?`, an Ok item is serialised and
\* written to the writer as one line.
display_stream ==
    /\ returned = None
    /\ batch.fn = "display_stream"
    /\ IF batch.taken = Len(batch.items)
       THEN /\ returned' = Some(ResultOk("()"))
            /\ UNCHANGED <<batch, out>>
       ELSE LET result_item == batch.items[batch.taken + 1]
            IN /\ batch' = [batch EXCEPT !.taken = @ + 1]
               /\ IF result_item.tag = "Err"
                  THEN /\ returned' = Some(ResultErr(result_item.error))
                       /\ UNCHANGED out
                  ELSE /\ out' = Append(out, to_string(result_item.value))
                       /\ UNCHANGED returned
    /\ UNCHANGED <<manifest_list_location, manifest_list_fetch, manifests, pc, verify,
                   strategy, manifest_window_vars, data_window_vars, batched_vars,
                   missing_count, result, error, out_src, history_vars, previous>>

\* Mutant: any snapshot of the table is taken when none has the id.
find_snapshot_or_any(snapshots, id) ==
    IF \E sn \in snapshots : sn.snapshot_id = id
    THEN Some(CHOOSE sn \in snapshots : sn.snapshot_id = id)
    ELSE IF snapshots # {} THEN Some(CHOOSE sn \in snapshots : TRUE)
    ELSE None
\* metadata.snapshots().find(|s| s.snapshot_id() == id)
find_snapshot(snapshots, id) ==
    IF \E sn \in snapshots : sn.snapshot_id = id
    THEN Some(CHOOSE sn \in snapshots : sn.snapshot_id = id)
    ELSE None

\* handle_snapshot: resolve the snapshot id ("current" or an integer) to a
\* snapshot of the table, or return an error; then display the snapshot, or
\* enter handle_snapshot_files on it, which chooses the strategy.
handle_snapshot(file_io) ==
    /\ pc = "idle"
    /\ batch.fn = "handle_snapshot"
    /\ LET id == IF batch.snapshot_id = CurrentId THEN batch.table.current_snapshot_id
                 ELSE parse_i64(batch.snapshot_id)
           snapshot == find_snapshot(batch.table.snapshots, Unwrap(id))
       IN IF ~IsSome(id)
          THEN /\ Fatal(IF batch.snapshot_id = CurrentId THEN "no_current_snapshot"
                        ELSE "snapshot_id_not_integer")
               /\ UNCHANGED <<manifest_list_location, verify, strategy, out, out_src>>
          ELSE IF ~IsSome(snapshot)
          THEN /\ Fatal("snapshot_not_found")
               /\ UNCHANGED <<manifest_list_location, verify, strategy, out, out_src>>
          ELSE IF batch.command = None
          THEN /\ Display(Unwrap(snapshot), NoSrc)
               /\ result' = "Ok"
               /\ pc' = "done"
               /\ UNCHANGED <<manifest_list_location, verify, strategy, error>>
          ELSE /\ manifest_list_location' = Unwrap(snapshot).manifest_list
               /\ verify' = Unwrap(batch.command).verify
               /\ strategy' =
                      IF /\ Unwrap(batch.command).verify
                         /\ IsSome(parse_s3_url(Unwrap(snapshot).manifest_list))
                         /\ IsSome(s3_client_from_file_io(file_io))
                      THEN "batched" ELSE "streaming"
               /\ pc' = "manifest_list_record"
               /\ UNCHANGED <<out, out_src, result, error>>
    /\ UNCHANGED <<manifest_list_fetch, manifests, previous, batch, returned,
                   manifest_window_vars, data_window_vars, batched_vars, missing_count,
                   history_vars>>

\* list_objects_with_prefix, one turn of its loop: the request for the page
\* the continuation token names (the first page without a token) is sent; it
\* fails, which ends the call with the error, or the keys of the page's
\* objects are inserted as s3://bucket/key and the loop goes on with the
\* page's token when is_truncated is Some(true), and returns the set otherwise.
\* batch.requested counts the requests sent for each page, up to MaxRequests.
list_objects_with_prefix(ok) ==
    /\ returned = None
    /\ batch.fn = "list_objects_with_prefix"
    /\ LET page_no == IF IsSome(continuation_token) THEN Unwrap(continuation_token) ELSE 1
           response == batch.pages[page_no]
       IN /\ batch' = [batch EXCEPT !.requested[page_no] =
                                        IF @ < MaxRequests THEN @ + 1 ELSE @]
          /\ IF ~ok
             THEN /\ returned' = Some(ResultErr("Failed to list S3 objects"))
                  /\ UNCHANGED <<existing_files, continuation_token>>
             ELSE /\ existing_files' =
                         existing_files
                         \cup {S3Url(batch.bucket, Unwrap(object)) :
                                   object \in {o \in response.contents : IsSome(o)}}
                  /\ IF response.is_truncated = Some(TRUE)
                     THEN /\ continuation_token' = response.next_continuation_token
                          /\ UNCHANGED returned
                     ELSE /\ returned' = Some(ResultOk(existing_files'))
                          /\ UNCHANGED continuation_token
    /\ UNCHANGED <<manifest_list_location, manifest_list_fetch, manifests, pc, verify,
                   strategy, manifest_window_vars, data_window_vars, manifest_records,
                   all_data_files, listing, emitted, missing_count, out, result, error,
                   out_src, history_vars, previous>>

\* ------------------------------------------------------------ specification
Next ==
    \/ \E v \in BOOLEAN, file_io \in FileIOs : handle_snapshot_files(v, file_io)
    \/ EmitManifestListRecord
    \/ FetchManifestList
    \/ StartManifestFetch
    \/ \E j \in 1..Len(manifests) : CompleteManifestFetch(j)
    \/ \E j \in 1..Len(manifests) : YieldManifestStreaming(j)
    \/ StartProbe
    \/ \E k \in 1..Len(data_files), outcome \in {None, Some(TRUE), Some(FALSE)} :
           CompleteProbe(k, outcome)
    \/ \E k \in 1..Len(data_files) : YieldData(k)
    \/ EndDataStream
    \/ EndStreaming
    \/ \E j \in 1..Len(manifests) : YieldManifestBatched(j)
    \/ EndManifestsBatched
    \/ S3FileCache_new
    \/ \E ok \in BOOLEAN : ListPage(ok)
    \/ EmitManifestRecord
    \/ EndManifestRecords
    \/ EmitDataRecord
    \/ EndBatched

Spec == Init /\ [][Next]_vars

\* The FileIOs from which no S3 client can be built: with them
\* handle_snapshot_files takes the streaming walk whatever the verify flag.
StreamingFileIOs == {file_io \in FileIOs : ~IsSome(s3_client_from_file_io(file_io))}

\* The steps of the streaming walk: handle_snapshot_files_streaming driving
\* the stream of iterate_files.
NextStreaming ==
    \/ \E v \in BOOLEAN, file_io \in StreamingFileIOs : handle_snapshot_files(v, file_io)
    \/ EmitManifestListRecord
    \/ FetchManifestList
    \/ StartManifestFetch
    \/ \E j \in 1..Len(manifests) : CompleteManifestFetch(j)
    \/ \E j \in 1..Len(manifests) : YieldManifestStreaming(j)
    \/ StartProbe
    \/ \E k \in 1..Len(data_files), outcome \in {None, Some(TRUE), Some(FALSE)} :
           CompleteProbe(k, outcome)
    \/ \E k \in 1..Len(data_files) : YieldData(k)
    \/ EndDataStream
    \/ EndStreaming

\* The streaming walk when every step that can be taken is eventually taken:
\* the runtime keeps polling the command's future, and every manifest fetch
\* and every existence probe in flight eventually completes.
SpecFair == Init /\ [][NextStreaming]_vars /\ WF_vars(NextStreaming)

\* Two runs of the command, the Direct strategy then the batched one, on one
\* snapshot whose manifest list and manifests can all be fetched.
InitTwoRuns ==
    /\ Init
    /\ manifest_list_fetch = "ok"
    /\ \A m \in 1..Len(manifests) : manifests[m].fetch = "ok"

NextTwoRuns == Next \/ \E file_io \in FileIOs : Rerun(file_io)

SpecTwoRuns == InitTwoRuns /\ [][NextTwoRuns]_vars

\* Two runs of the command with the same arguments on one snapshot, every
\* manifest readable and every entry live.
InitRepeat ==
    /\ manifest_list_location \in ManifestListLocations
    /\ manifest_list_fetch = "ok"
    /\ manifests \in AddedListsOf(DataPaths, MaxManifests, MaxEntries)
    /\ previous = None
    /\ batch = <<>>
    /\ returned = None
    /\ WalkerInit

NextRepeat == Next \/ Repeat

SpecRepeat == InitRepeat /\ [][NextRepeat]_vars

\* The command on a table whose data files are kept in two buckets, every
\* manifest readable and every entry live.
InitTwoBuckets ==
    /\ manifest_list_location \in ManifestListLocations
    /\ manifest_list_fetch = "ok"
    /\ manifests \in AddedListsOf(DataPaths \cup {OtherBucketPath}, MaxManifests, MaxEntries)
    /\ previous = None
    /\ batch = <<>>
    /\ returned = None
    /\ WalkerInit

SpecTwoBuckets == InitTwoBuckets /\ [][Next]_vars

\* The command on tables of every kind of manifest-list location, every
\* manifest readable and every entry live.
InitAnyLocation ==
    /\ manifest_list_location \in AnyManifestListLocations
    /\ manifest_list_fetch = "ok"
    /\ manifests \in AddedListsOf(DataPaths, MaxManifests, MaxEntries)
    /\ previous = None
    /\ batch = <<>>
    /\ returned = None
    /\ WalkerInit

SpecAnyLocation == InitAnyLocation /\ [][Next]_vars

\* find_common_prefix on its own, on every batch of at most MaxPaths paths.
InitPrefix ==
    /\ manifest_list_location \in ManifestListLocations
    /\ manifest_list_fetch = "ok"
    /\ manifests = <<>>
    /\ previous = None
    /\ batch \in SeqsUpTo(PrefixPaths, MaxPaths)
    /\ returned = None
    /\ WalkerInit

SpecPrefix == InitPrefix /\ [][CallFindCommonPrefix]_vars

\* The existence checkers and parse_s3_url on their own: one call of one of
\* them, on every argument drawn from the sets above.
Calls ==
    [fn : {"FileIOExistenceChecker::exists"}, path : DataPaths,
     probe : {Some(TRUE), Some(FALSE), None}]
    \cup [fn : {"S3FileCache::exists"}, existing : CacheListings, path : LookupPaths]
    \cup [fn : {"PreloadedExistenceChecker::exists"}, base_url : PreloadedBases,
          suffixes : PreloadedSuffixes, path : LookupPaths]
    \cup [fn : {"parse_s3_url"}, url : UrlPaths]

InitCalls ==
    /\ manifest_list_location \in ManifestListLocations
    /\ manifest_list_fetch = "ok"
    /\ manifests = <<>>
    /\ previous = None
    /\ batch \in Calls
    /\ returned = None
    /\ WalkerInit

NextCalls ==
    \/ CallFileIOExistenceCheckerExists
    \/ CallS3FileCacheExists
    \/ CallPreloadedExistenceCheckerExists
    \/ CallParseS3Url

SpecCalls == InitCalls /\ [][NextCalls]_vars

\* display_stream on its own, on every stream of at most MaxItems items and
\* a writer that has written nothing yet.
InitDisplay ==
    /\ manifest_list_location \in ManifestListLocations
    /\ manifest_list_fetch = "ok"
    /\ manifests = <<>>
    /\ previous = None
    /\ batch \in [fn : {"display_stream"}, items : SeqsUpTo(StreamItems, MaxItems),
                   taken : {0}]
    /\ returned = None
    /\ WalkerInit

SpecDisplay == InitDisplay /\ [][display_stream]_vars

\* The snapshot command from its arguments to the first record of the walk:
\* every table, snapshot id argument and subcommand.
InitSnapshot ==
    /\ manifest_list_location = <<>>
    /\ manifest_list_fetch = "ok"
    /\ manifests = <<>>
    /\ previous = None
    /\ batch \in [fn : {"handle_snapshot"}, table : Tables, snapshot_id : SnapshotIdArgs,
                   command : SnapshotCmds]
    /\ returned = None
    /\ WalkerInit

NextSnapshot ==
    \/ \E file_io \in FileIOs : handle_snapshot(file_io)
    \/ EmitManifestListRecord

SpecSnapshot == InitSnapshot /\ [][NextSnapshot]_vars

\* The command on a snapshot of ManyManifests readable manifests, the first of
\* which names at most one data file.
InitManyManifests ==
    /\ manifest_list_location \in ManifestListLocations
    /\ manifest_list_fetch = "ok"
    /\ manifests \in
           {[j \in 1..ManyManifests |->
                 [fetch |-> "ok", entries |-> IF j = 1 THEN e ELSE <<>>]] :
                e \in SeqsUpTo([status : {"Added"}, file_path : DataPaths], 1)}
    /\ previous = None
    /\ batch = <<>>
    /\ returned = None
    /\ WalkerInit

SpecManyManifests == InitManyManifests /\ [][Next]_vars

\* The streaming walk on a snapshot of two readable manifests, the first with
\* ManyFiles data files and the second with one, when no probe fails.
InitManyFiles ==
    /\ manifest_list_location \in ManifestListLocations
    /\ manifest_list_fetch = "ok"
    /\ manifests =
           <<[fetch |-> "ok",
              entries |-> [e \in 1..ManyFiles |->
                              [status |-> "Added",
                               file_path |-> IF e = 1 THEN MissingPath ELSE PresentPath]]],
             [fetch |-> "ok",
              entries |-> <<[status |-> "Added", file_path |-> PresentPath]>>]>>
    /\ previous = None
    /\ batch = <<>>
    /\ returned = None
    /\ WalkerInit

NextManyFiles ==
    \/ \E v \in BOOLEAN, file_io \in StreamingFileIOs : handle_snapshot_files(v, file_io)
    \/ EmitManifestListRecord
    \/ FetchManifestList
    \/ StartManifestFetch
    \/ \E j \in 1..Len(manifests) : CompleteManifestFetch(j)
    \/ \E j \in 1..Len(manifests) : YieldManifestStreaming(j)
    \/ StartProbe
    \/ \E k \in 1..Len(data_files), outcome \in {Some(TRUE), Some(FALSE)} :
           CompleteProbe(k, outcome)
    \/ \E k \in 1..Len(data_files) : YieldData(k)
    \/ EndDataStream
    \/ EndStreaming

SpecManyFiles == InitManyFiles /\ [][NextManyFiles]_vars

\* The command on a table whose data files are kept in two buckets and in a
\* store that is not S3, every manifest readable and every entry live.
InitAnyStore ==
    /\ manifest_list_location \in ManifestListLocations
    /\ manifest_list_fetch = "ok"
    /\ manifests \in AddedListsOf(DataPaths \cup {OtherBucketPath, OtherSchemePath},
                                  MaxManifests, MaxEntries)
    /\ previous = None
    /\ batch = <<>>
    /\ returned = None
    /\ WalkerInit

SpecAnyStore == InitAnyStore /\ [][Next]_vars

\* list_objects_with_prefix on its own, on every listing of at most MaxPages
\* pages.  The loop keeps turning: a request the store answers is eventually
\* sent, while nothing makes a request fail.  Once a page has been requested
\* MaxRequests times a further turn for it leaves the state as it is, so the
\* loop that asks for the same page for ever is the behaviour that stays in
\* that state.
InitListing ==
    /\ manifest_list_location \in ManifestListLocations
    /\ manifest_list_fetch = "ok"
    /\ manifests = <<>>
    /\ previous = None
    /\ batch \in {[fn |-> "list_objects_with_prefix", bucket |-> Bucket, pages |-> pages,
                    requested |-> [n \in 1..Len(pages) |-> 0]] : pages \in Listings}
    /\ returned = None
    /\ WalkerInit

NextListing == \E ok \in BOOLEAN : list_objects_with_prefix(ok)

SpecListing ==
    InitListing /\ [][NextListing]_vars /\ WF_vars(list_objects_with_prefix(TRUE))

\* The pages the paginator of list_object_suffixes hands out for a prefix:
\* the objects of a page, each key starting with the prefix, or an error.
SuffixPages(prefix) ==
    {ResultOk(contents) :
         contents \in SUBSET {o \in ListedObjects :
                                  IsSome(o) => StartsWith(Unwrap(o), prefix)}}
    \cup {ResultErr("Failed to list S3 objects")}
SuffixListings(prefix) == SeqsUpTo(SuffixPages(prefix), MaxPages)

\* list_object_suffixes: the pages are taken in order; an error page leaves
\* through `?`, and of every object with a key the part of the key after the
\* prefix (the whole key when it does not start with it) goes into the set.
RECURSIVE list_object_suffixes(_, _)
list_object_suffixes(pages, prefix) ==
    IF pages = <<>> THEN ResultOk({})
    ELSE IF Head(pages).tag = "Err" THEN Head(pages)
    ELSE LET rest == list_object_suffixes(Tail(pages), prefix)
             suffixes == {LET key == Unwrap(object)
                              suffix == strip_prefix(key, prefix)
                          IN IF IsSome(suffix) THEN Unwrap(suffix) ELSE key :
                          object \in {o \in Head(pages).value : IsSome(o)}}
         IN IF rest.tag = "Err" THEN rest ELSE ResultOk(suffixes \cup rest.value)

\* create_existence_checker: for a data prefix that parses as an S3 URL and a
\* FileIO a client can be built from, the PreloadedExistenceChecker of
\* base_url = format!("s3://{}/{}", bucket, prefix) and the listed suffixes,
\* or the error of the listing; otherwise the FileIOExistenceChecker.
create_existence_checker(file_io, data_prefix, pages) ==
    LET parsed == parse_s3_url(data_prefix)
        client == s3_client_from_file_io(file_io)
    IN IF IsSome(parsed) /\ IsSome(client)
       THEN LET bucket == Unwrap(parsed)[1]
                prefix == Unwrap(parsed)[2]
                base_url == S3Url(bucket, prefix)
                suffixes == list_object_suffixes(pages, prefix)
            IN IF suffixes.tag = "Err" THEN suffixes
               ELSE ResultOk([kind |-> "Preloaded", base_url |-> base_url,
                              suffixes |-> suffixes.value])
       ELSE ResultOk([kind |-> "FileIO", base_url |-> <<>>, suffixes |-> {}])

\* FileExistenceChecker::exists on the boxed checker: the implementation of
\* the checker's kind, the FileIO one on a probe of the given outcome.
FileExistenceChecker_exists(checker, path, probe) ==
    IF checker.kind = "Preloaded"
    THEN PreloadedExistenceChecker_exists(checker.base_url, checker.suffixes, path)
    ELSE FileIOExistenceChecker_exists(probe)

\* create_existence_checker called on batch.file_io and batch.data_prefix,
\* the store answering the listing with batch.pages.
CallCreateExistenceChecker ==
    /\ batch.fn = "create_existence_checker"
    /\ batch.checker = None
    /\ batch' = [batch EXCEPT !.checker =
                     Some(create_existence_checker(batch.file_io, batch.data_prefix,
                                                   batch.pages))]
    /\ UNCHANGED <<manifest_list_location, manifest_list_fetch, manifests, pc, verify,
                   strategy, manifest_window_vars, data_window_vars, batched_vars,
                   missing_count, out, result, error, out_src, history_vars, previous,
                   returned>>

\* exists(batch.path) called on the checker create_existence_checker returned.
CallCheckerExists(probe) ==
    /\ batch.fn = "create_existence_checker"
    /\ batch.checker # None
    /\ Unwrap(batch.checker).tag = "Ok"
    /\ returned = None
    /\ returned' = Some(FileExistenceChecker_exists(Unwrap(batch.checker).value,
                                                    batch.path, probe))
    /\ CallUnchanged

\* The FileIOs, data prefixes and paths create_existence_checker and its
\* checker are called on: with and without a region, each scheme, the
\* bucket's root, a store that is not S3, a path of another bucket.
CheckerFileIOs ==
    {f \in FileIOs : /\ f.scheme \in {"s3", "s3a"}
                     /\ {"s3.access-key-id", "s3.secret-access-key"} \subseteq f.props
                     /\ "s3.session-token" \notin f.props}
DataPrefixes ==
    {h \o Bucket \o <<"/">> \o k :
         h \in {S3Scheme, S3aScheme, <<"m", ":", "/", "/">>}, k \in {<<>>, <<"d", "/">>}}
CheckerPaths ==
    {h \o Bucket \o <<"/">> \o k : h \in {S3Scheme, S3aScheme}, k \in {KeyPresent, KeyMissing}}
    \cup {OtherBucketPath}

\* create_existence_checker and then exists on its own, on every listing of
\* at most MaxPages pages.
InitChecker ==
    /\ manifest_list_location \in ManifestListLocations
    /\ manifest_list_fetch = "ok"
    /\ manifests = <<>>
    /\ previous = None
    /\ batch \in UNION {[fn : {"create_existence_checker"}, file_io : {file_io},
                         data_prefix : {data_prefix},
                         pages : IF IsSome(parse_s3_url(data_prefix))
                                    /\ IsSome(s3_client_from_file_io(file_io))
                                 THEN SuffixListings(Unwrap(parse_s3_url(data_prefix))[2])
                                 ELSE {<<>>},
                         path : CheckerPaths, checker : {None}] :
                            file_io \in CheckerFileIOs, data_prefix \in DataPrefixes}
    /\ returned = None
    /\ WalkerInit

NextChecker ==
    \/ CallCreateExistenceChecker
    \/ \E probe \in ProbeOutcomes(batch.path) : CallCheckerExists(probe)

SpecChecker == InitChecker /\ [][NextChecker]_vars

\* -------------------------------------------------------------- properties
Records == 1..Len(out)
IsData(i) == out[i].type = "data"
IsManifest(i) == out[i].type = "manifest"
DataRecords == {i \in Records : IsData(i)}
ManifestRecords == {i \in Records : IsManifest(i)}
Positions == {<<m, e>> \in (1..Len(manifests)) \X (1..MaxEntries + 1) :
                  e <= Len(manifests[m].entries)}
EntryAt(m, e) == manifests[m].entries[e]
IsLive(m, e) == EntryAt(m, e).status \in {"Added", "Existing"}
LivePositions == {p \in Positions : IsLive(p[1], p[2])}
AllFetchesOk ==
    /\ manifest_list_fetch = "ok"
    /\ \A m \in 1..Len(manifests) : manifests[m].fetch = "ok"
\* Every manifest has its Manifest record and every live entry its Data record.
OutputComplete ==
    /\ \A m \in 1..Len(manifests) : \E i \in ManifestRecords : out_src[i].m = m
    /\ \A p \in LivePositions :
           \E i \in DataRecords : out_src[i].m = p[1] /\ out_src[i].e = p[2]

\* C1: a manifest entry with status Deleted never produces a Data record and
\* never causes an existence probe or a cache lookup; every Data record, probe
\* and lookup comes from an Added or Existing entry and carries its path.
C1_DeletedNeverEmittedNorChecked ==
    /\ \A i \in DataRecords :
           /\ <<out_src[i].m, out_src[i].e>> \in LivePositions
           /\ out[i].path = EntryAt(out_src[i].m, out_src[i].e).file_path
    /\ \A f \in probes \cup lookups :
           /\ <<f.m, f.e>> \in LivePositions
           /\ f.path = EntryAt(f.m, f.e).file_path

\* A verified streaming walk over a manifest whose Deleted entry precedes a
\* live one has ended: the live entry was probed and emitted.
C1_Witness ==
    /\ pc = "done"
    /\ strategy = "streaming"
    /\ \E m \in 1..Len(manifests) :
           /\ Len(manifests[m].entries) = 2
           /\ EntryAt(m, 1).status = "Deleted"
           /\ IsLive(m, 2)
           /\ \E f \in probes : f.m = m /\ f.e = 2
           /\ \E i \in DataRecords : out_src[i].m = m /\ out_src[i].e = 2

\* C2: in the output, at every moment, the Data records of a manifest come
\* after that manifest's own Manifest record and in the order of the
\* manifest's entries, whatever the completion order of the probes.
C2_DataAfterManifestInEntryOrder ==
    \A i \in DataRecords :
        /\ \E j \in ManifestRecords : j < i /\ out_src[j].m = out_src[i].m
        /\ \A k \in DataRecords :
               i < k /\ out_src[k].m = out_src[i].m => out_src[i].e < out_src[k].e

\* The probe of a manifest's second data file has completed before the probe
\* of its first, and waits: only the manifest's own record is out.
C2_Witness ==
    /\ pc = "data"
    /\ verify
    /\ head_data = 1
    /\ DOMAIN probed = {2}
    /\ \E j \in ManifestRecords : out_src[j].m = data_files[1].m

\* C3: the n-th Manifest record of the output is the record of the manifest at
\* list position n, whatever the completion order of the manifest fetches.
C3_ManifestsInListOrder ==
    \A i \in ManifestRecords :
        /\ out_src[i].m = Cardinality({j \in ManifestRecords : j <= i})
        /\ out[i].path = ManifestPath(out_src[i].m)

\* The fetch of the second manifest has completed before the fetch of the
\* first, and waits its turn: no Manifest record is out.
C3_Witness ==
    /\ pc = "manifests"
    /\ head_manifest = 1
    /\ fetched = {2}
    /\ ManifestRecords = {}

\* C4: when fetching or parsing the manifest at position i fails, the command
\* ends with a fatal error, no Data record of manifest i is emitted and no
\* record of a manifest after i is emitted.
C4_ManifestFailureIsFatal ==
    \A i \in 1..Len(manifests) :
        manifests[i].fetch # "ok" =>
            /\ \A r \in Records : out_src[r].m <= i /\ ~(IsData(r) /\ out_src[r].m = i)
            /\ result \in {"running", "Err"}
            /\ pc = "done" => result = "Err" /\ error \in {"fetch_err", "parse_err"}

\* The first manifest failed, the second had been fetched successfully and
\* holds a live entry, and the command has ended.
C4_Witness ==
    /\ pc = "done"
    /\ Len(manifests) = 2
    /\ manifests[1].fetch # "ok"
    /\ manifests[2].fetch = "ok"
    /\ \E e \in 1..Len(manifests[2].entries) : IsLive(2, e)
    /\ 2 \in fetched
    /\ ManifestRecords # {}

\* C5: when fetching or parsing the manifest list fails, the output is the
\* single ManifestList record, no manifest fetch, probe or lookup is started,
\* and the command ends with a fatal error, not ExpectedError::Failed.
C5_ManifestListFailureIsFatal ==
    manifest_list_fetch # "ok" =>
        /\ Len(out) <= 1
        /\ \A r \in Records : out[r].type = "manifest-list"
        /\ next_manifest = 1 /\ fetched = {}
        /\ probes = {} /\ lookups = {}
        /\ result \in {"running", "Err"}
        /\ pc = "done" => result = "Err" /\ Len(out) = 1 /\ error = manifest_list_fetch

\* The manifest list named manifests but could not be read, and the command
\* has ended.
C5_Witness ==
    /\ pc = "done"
    /\ manifest_list_fetch # "ok"
    /\ Len(manifests) > 0
    /\ Len(out) = 1

\* C6: in the streaming strategy with verify, a Data record has exists = true
\* exactly when its probe returned present; a probe error gives exists = false
\* and is counted as missing; it never aborts the walk: a fatal error comes
\* only from a failed fetch, and when every fetch succeeds the walk ends
\* without a fatal error, every manifest and live entry emitted.
C6_ProbeErrorIsMissingNotFatal ==
    strategy = "streaming" /\ verify =>
        /\ \A i \in DataRecords :
               /\ out_src[i].probe \in {"present", "absent", "error"}
               /\ out[i].exists = Some(out_src[i].probe = "present")
        /\ missing_count =
               Cardinality({i \in DataRecords : out_src[i].probe \in {"absent", "error"}})
        /\ result = "Err" => ~AllFetchesOk
        /\ pc = "done" /\ AllFetchesOk => result # "Err" /\ OutputComplete

\* A probe of the first manifest failed, and the walk went on to emit a Data
\* record of the second manifest and ended.
C6_Witness ==
    /\ pc = "done"
    /\ strategy = "streaming" /\ verify
    /\ \E i, k \in DataRecords :
           /\ out_src[i].m = 1 /\ out_src[i].probe = "error"
           /\ out[i].exists = Some(FALSE)
           /\ out_src[k].m = 2

\* C7: once the command has started, every record has an exists value exactly
\* when verify was requested; without verify the batched strategy is not
\* selected and the command does not end with ExpectedError::Failed.
C7_ExistsIffVerify ==
    pc # "idle" =>
        /\ \A i \in Records : IsSome(out[i].exists) <=> verify
        /\ ~verify => strategy = "streaming" /\ result # "Failed"

\* A walk without verify over a snapshot that names the missing file has ended
\* and emitted its Data record.
C7_Witness ==
    /\ pc = "done"
    /\ ~verify
    /\ \E i \in DataRecords : out[i].path = MissingPath /\ out[i].exists = None

\* C8: when the command ends with verify and no fatal error, the count it
\* carries is the number n of Data records emitted with exists = false, and it
\* ends with ExpectedError::Failed exactly when n > 0, with success when n = 0.
C8_VerdictCountsMissing ==
    pc = "done" /\ verify /\ result # "Err" =>
        LET n == Cardinality({i \in DataRecords : out[i].exists = Some(FALSE)})
        IN /\ missing_count = n
           /\ result = "Failed" <=> n > 0
           /\ result = "Ok" <=> n = 0

\* The batched strategy has ended with two missing files counted for one path
\* referenced twice.
C8_Witness ==
    /\ pc = "done"
    /\ strategy = "batched"
    /\ result = "Failed"
    /\ missing_count = 2
    /\ \E i, k \in DataRecords : i < k /\ out[i].path = out[k].path

\* C9: ExpectedError::Failed is reported only after every Manifest record and
\* every Data record of the snapshot has been emitted.
C9_FailedOnlyAfterFullOutput ==
    result = "Failed" => pc = "done" /\ AllFetchesOk /\ OutputComplete

\* The streaming walk ended with Failed, and a record follows the Data record
\* of a missing file.
C9_Witness ==
    /\ result = "Failed"
    /\ strategy = "streaming"
    /\ \E i \in DataRecords : out[i].exists = Some(FALSE) /\ i < Len(out)

\* The Data records of the previous run.
PreviousData ==
    IF IsSome(previous)
    THEN {k \in 1..Len(Unwrap(previous).out) : Unwrap(previous).out[k].type = "data"}
    ELSE {}

BucketOf(path) == Unwrap(parse_s3_url(path))[1]
LiveBuckets == {BucketOf(EntryAt(p[1], p[2]).file_path) : p \in LivePositions}

\* C11 as stated: when the batched strategy was selected and the accumulated
\* paths span more than one bucket, the walk does not end in an error: it falls
\* back to per-path probes and emits one Data record per live path.
C11_MultiBucketFallsBackToDirect ==
    /\ strategy = "batched"
    /\ pc = "done"
    /\ AllFetchesOk
    /\ Cardinality(LiveBuckets) > 1
    => /\ result # "Err"
       /\ OutputComplete
       /\ \A i \in DataRecords : out_src[i].probe \in {"present", "absent", "error"}

\* The results find_common_prefix is specified to give on a batch.
IsS3Path(path) ==
    \E scheme \in {S3Scheme, S3aScheme} :
        /\ StartsWith(path, scheme)
        /\ \E i \in (Len(scheme) + 1)..Len(path) : path[i] = "/"
KeyOf(path) == Unwrap(parse_s3_url(path))[2]
\* The longest sequence of characters every key starts with.
LongestCommon(keys) ==
    LET k0 == CHOOSE k \in keys : TRUE
        n == CHOOSE n \in 0..Len(k0) :
                 /\ \A k \in keys : StartsWith(k, SubSeq(k0, 1, n))
                 /\ \A m \in (n + 1)..Len(k0) :
                        \E k \in keys : ~StartsWith(k, SubSeq(k0, 1, m))
    IN SubSeq(k0, 1, n)
\* s cut back to just after its last '/', empty when it holds none.
DirectoryOf(s) ==
    LET slashes == {i \in 1..Len(s) : s[i] = "/"}
    IN IF slashes = {} THEN <<>>
       ELSE SubSeq(s, 1, CHOOSE i \in slashes : \A j \in slashes : j <= i)
BatchPaths == {batch[i] : i \in 1..Len(batch)}
NoPrefixExpected ==
    \/ batch = <<>>
    \/ \E p \in BatchPaths : ~IsS3Path(p)
    \/ \E p, q \in BatchPaths : BucketOf(p) # BucketOf(q)
PrefixAsSpecified ==
    LET call == Unwrap(returned)
    IN IF NoPrefixExpected THEN call.tag = "none"
       ELSE /\ call.tag = "some"
            /\ call.bucket = BucketOf(batch[1])
            /\ call.common_prefix = DirectoryOf(LongestCommon({KeyOf(p) : p \in BatchPaths}))
            /\ \A p \in BatchPaths : StartsWith(KeyOf(p), call.common_prefix)

\* C12 as stated: find_common_prefix returns none exactly for an empty batch,
\* an unparsable path or two buckets, and otherwise the shared bucket with the
\* longest common character sequence of the keys cut back to just after its
\* last '/'.
C12_CommonPrefixAsSpecified == IsSome(returned) => PrefixAsSpecified

\* C12 on keys made of ASCII characters only: there the result is the
\* specified one.
AsciiBatch == \A p \in BatchPaths : \A i \in 1..Len(p) : len_utf8(p[i]) = 1
C12_CommonPrefixAsSpecifiedAscii == IsSome(returned) /\ AsciiBatch => PrefixAsSpecified

\* find_common_prefix has returned the directory "d/" for an s3 path and an
\* s3a path of one bucket.
C12_Witness ==
    /\ batch = <<PresentPath, MissingPath>>
    /\ IsSome(returned)
    /\ Unwrap(returned) = PrefixOutcome("some", Bucket, <<"d", "/">>)

\* Every manifest of the snapshot has been fetched and parsed.
AllManifestsRead == AllFetchesOk /\ pc \notin {"idle", "manifest_list_record",
                                               "manifest_list", "manifests"}

ListedUrls(bucket, prefix) ==
    {S3Url(bucket, key) : key \in {k \in {o[2] : o \in {x \in Store : x[1] = bucket}} :
                                       StartsWith(k, prefix)}}

\* C14: when the batched strategy ends after a successful listing, the output
\* is the ManifestList record, then the Manifest records in list order, then
\* one Data record per live entry in manifest order and entry order, each
\* exists value the exact-match lookup of the path (as an s3:// URL) in the
\* listed set; the batched strategy never issues an existence probe.
C14_BatchedOutput ==
    strategy = "batched" =>
        /\ probes = {} /\ probe_errors = 0
        /\ pc = "done" /\ result \in {"Ok", "Failed"} =>
               LET n == Len(manifests)
               IN /\ existing_files = ListedUrls(Unwrap(listing)[1], Unwrap(listing)[2])
                  /\ Len(out) = 1 + n + Cardinality(LivePositions)
                  /\ out[1] = FileRecord("manifest-list", manifest_list_location, Some(TRUE))
                  /\ \A i \in 2..(n + 1) :
                         /\ out[i] = FileRecord("manifest", ManifestPath(i - 1), Some(TRUE))
                         /\ out_src[i].m = i - 1
                  /\ \A i \in (n + 2)..Len(out) :
                         /\ IsData(i)
                         /\ <<out_src[i].m, out_src[i].e>> \in LivePositions
                         /\ out[i].path = EntryAt(out_src[i].m, out_src[i].e).file_path
                         /\ out[i].exists =
                                Some(S3Url(BucketOf(out[i].path), KeyOf(out[i].path))
                                         \in existing_files)
                         /\ out_src[i].probe = "none"
                         /\ \A k \in (i + 1)..Len(out) :
                                \/ out_src[i].m < out_src[k].m
                                \/ out_src[i].m = out_src[k].m /\ out_src[i].e < out_src[k].e

\* The batched strategy has ended after a listing of more than one page: two
\* manifests, the present file (written s3a://) found and the missing one not.
C14_Witness ==
    /\ strategy = "batched"
    /\ pc = "done"
    /\ IsSome(continuation_token)
    /\ Len(manifests) = 2
    /\ \E i, k \in DataRecords :
           /\ out[i].path = PresentPath /\ out[i].exists = Some(TRUE)
           /\ out[k].path = MissingPath /\ out[k].exists = Some(FALSE)
           /\ out_src[i].m # out_src[k].m

\* C15: in the batched strategy, when a page of the bulk listing fails, the
\* command ends at once with an error that is not ExpectedError::Failed, and
\* no Manifest or Data record is written.
C15_ListingFailureIsFatal ==
    error = "listing" =>
        /\ pc = "done"
        /\ result = "Err"
        /\ ManifestRecords = {} /\ DataRecords = {}

\* The request for a later page of the listing has failed, after manifests
\* with a missing file had been read.
C15_Witness ==
    /\ error = "listing"
    /\ IsSome(continuation_token)
    /\ Len(manifest_records) > 0
    /\ \E i \in 1..Len(all_data_files) : all_data_files[i].path = MissingPath

\* When the batched strategy is to be selected for a verify flag and a FileIO.
BatchedSpecified(v, file_io) ==
    /\ v
    /\ IsS3Path(manifest_list_location)
    /\ file_io.scheme \in {"s3", "s3a"}
    /\ {"s3.access-key-id", "s3.secret-access-key", "s3.region"} \subseteq file_io.props

\* C16: the strategy is set in one step only, the first of the command, before
\* anything is written or fetched; it is the batched strategy if and only if
\* verify is requested, the manifest-list location is an s3:// or s3a:// URL
\* with a '/' after the bucket, the FileIO scheme is s3 or s3a and its
\* properties hold an access key id, a secret access key and a region; in
\* every other case it is the streaming Direct strategy.
C16_StrategyChosenOnce ==
    [][/\ strategy' # strategy =>
              pc = "idle" /\ out = <<>> /\ next_manifest = 1 /\ next_data = 1
       /\ \A v \in BOOLEAN, file_io \in FileIOs :
              handle_snapshot_files(v, file_io) =>
                  strategy' = IF BatchedSpecified(v, file_io) THEN "batched"
                              ELSE "streaming"]_vars

\* A verified walk of a table whose manifest list is at an s3a:// location has
\* ended in the batched strategy.
C16_Witness ==
    /\ pc = "done"
    /\ verify
    /\ strategy = "batched"
    /\ StartsWith(manifest_list_location, S3aScheme)
    /\ DataRecords # {}

\* C17: for a snapshot whose manifest list has no entries, the output never
\* holds a Manifest or Data record, and when the command has ended it is
\* exactly one ManifestList record, in either strategy.
C17_EmptyManifestList ==
    manifests = <<>> =>
        /\ \A i \in Records : out[i].type = "manifest-list"
        /\ Len(out) <= 1
        /\ pc = "done" =>
               out = <<FileRecord("manifest-list", manifest_list_location,
                                  implicitly_exists)>>

\* The batched strategy has ended on a snapshot whose manifest list was read
\* and has no entries.
C17_Witness ==
    /\ manifests = <<>>
    /\ manifest_list_fetch = "ok"
    /\ strategy = "batched"
    /\ pc = "done"
    /\ Len(out) = 1

C19_OneRecordPerFile ==
    pc = "done" /\ result \in {"Ok", "Failed"} =>
        /\ out # <<>>
        /\ \A i \in Records : out[i].type = "manifest-list" <=> i = 1
        /\ out[1].path = manifest_list_location
        /\ \A m \in 1..Len(manifests) :
               Cardinality({i \in ManifestRecords : out_src[i].m = m}) = 1
        /\ Cardinality(ManifestRecords) = Len(manifests)
        /\ \A p \in LivePositions :
               Cardinality({i \in DataRecords :
                                /\ out_src[i].m = p[1] /\ out_src[i].e = p[2]
                                /\ out[i].path = EntryAt(p[1], p[2]).file_path}) = 1
        /\ Cardinality(DataRecords) = Cardinality(LivePositions)

\* A streaming walk has ended without a fatal error on a snapshot where two
\* live entries of different manifests name the same path: two Data records
\* carry it.
C19_Witness ==
    /\ pc = "done"
    /\ result \in {"Ok", "Failed"}
    /\ strategy = "streaming"
    /\ \E i, k \in DataRecords :
           i # k /\ out[i].path = out[k].path /\ out_src[i].m # out_src[k].m

\* C20: with verify, the ManifestList record and every Manifest record carry
\* exists = true and come from no probe, every probe and lookup is for a data
\* file, and the missing count is the number of Data records with exists =
\* false.
C20_OnlyDataCanBeMissing ==
    verify =>
        /\ \A i \in Records \ DataRecords :
               out[i].exists = Some(TRUE) /\ out_src[i].probe = "none"
        /\ \A f \in probes \cup lookups : f.path \in DataPaths /\ f.e >= 1
        /\ \A i \in Records : out[i].exists = Some(FALSE) => IsData(i)
        /\ missing_count =
               Cardinality({i \in DataRecords : out[i].exists = Some(FALSE)})

\* A verified streaming walk has ended: a Manifest record with exists = true
\* is followed by the Data record of a missing file, the one record counted.
C20_Witness ==
    /\ pc = "done"
    /\ verify
    /\ strategy = "streaming"
    /\ missing_count = 1
    /\ \E i \in ManifestRecords, k \in DataRecords :
           i < k /\ out[i].exists = Some(TRUE) /\ out[k].exists = Some(FALSE)

\* C21: when every fetch and every probe eventually completes, the command
\* eventually ends, and stays ended, in exactly one of success,
\* ExpectedError::Failed or a fatal error.
C21_Terminates == <>[](pc = "done" /\ result \in {"Ok", "Failed", "Err"})

\* A verified streaming walk over two manifests with data files has ended
\* with ExpectedError::Failed after a probe error.
C21_Witness ==
    /\ pc = "done"
    /\ strategy = "streaming"
    /\ result = "Failed"
    /\ Len(manifests) = 2
    /\ probe_errors > 0
    /\ Len(out) = 5

\* Where a call of the function named fn has returned, and what it returned.
Returned(fn) == returned # None /\ batch.fn = fn
ReturnValue == Unwrap(returned)

\* C22: FileIOExistenceChecker::exists hands the outcome of the probe on as it
\* is: a failed probe is an error of the call, never Ok(false), and Ok(b) stays
\* Ok(b); it is the tree walker's unwrap_or(false) that turns the same failed
\* probe into false.
C22_CheckerKeepsProbeError ==
    Returned("FileIOExistenceChecker::exists") =>
        /\ batch.probe = None => ReturnValue = None /\ ReturnValue # Some(FALSE)
        /\ \A b \in BOOLEAN : batch.probe = Some(b) => ReturnValue = Some(b)
        /\ batch.probe = None => unwrap_or_false(batch.probe) = FALSE
C22_Witness ==
    /\ Returned("FileIOExistenceChecker::exists")
    /\ batch.probe = None
    /\ ReturnValue = None

\* The path with a leading s3a:// rewritten to s3://.
SchemeNormalised(path) ==
    IF StartsWith(path, S3aScheme)
    THEN S3Scheme \o SubSeq(path, Len(S3aScheme) + 1, Len(path))
    ELSE path
IsProperPrefix(a, b) == Len(a) < Len(b) /\ SubSeq(b, 1, Len(a)) = a

\* C23: S3FileCache::exists returns true exactly when the path, with a leading
\* s3a:// rewritten to s3://, is one of the listed URLs; a path that is only a
\* prefix or only an extension of a listed URL is reported absent.
C23_ExactMatchAfterNormalisation ==
    Returned("S3FileCache::exists") =>
        LET p == SchemeNormalised(batch.path)
        IN /\ ReturnValue = (p \in batch.existing)
           /\ (/\ p \notin batch.existing
               /\ \E u \in batch.existing : IsProperPrefix(p, u) \/ IsProperPrefix(u, p))
              => ReturnValue = FALSE
C23_Witness ==
    /\ Returned("S3FileCache::exists")
    /\ StartsWith(batch.path, S3aScheme)
    /\ ReturnValue = TRUE
    /\ \E u \in batch.existing : IsProperPrefix(SchemeNormalised(batch.path), u)
    /\ \E u \in batch.existing : IsProperPrefix(u, SchemeNormalised(batch.path))

\* C24: PreloadedExistenceChecker::exists returns Ok(true) exactly when the path
\* is the base URL followed by a preloaded suffix, and Ok(false) for any other
\* path, one outside the base URL included: never an error.
C24_PreloadedLookup ==
    Returned("PreloadedExistenceChecker::exists") =>
        /\ ReturnValue \in {Some(TRUE), Some(FALSE)}
        /\ ReturnValue = Some(TRUE)
               <=> \E suffix \in batch.suffixes : batch.path = batch.base_url \o suffix
        /\ ~StartsWith(batch.path, batch.base_url) => ReturnValue = Some(FALSE)
C24_Witness ==
    /\ Returned("PreloadedExistenceChecker::exists")
    /\ ~StartsWith(batch.path, batch.base_url)
    /\ StartsWith(batch.path, S3Scheme \o OtherBucket)
    /\ batch.suffixes # {}
    /\ ReturnValue = Some(FALSE)

\* The ways to read url as scheme, bucket without '/', '/', key.
UrlSplits(url) ==
    {sp \in {S3Scheme, S3aScheme} \X (1..Len(url)) :
         /\ StartsWith(url, sp[1])
         /\ sp[2] > Len(sp[1])
         /\ url[sp[2]] = "/"
         /\ \A i \in (Len(sp[1]) + 1)..(sp[2] - 1) : url[i] # "/"}

\* C25: parse_s3_url returns (bucket, key) exactly for a string that starts
\* with s3:// or s3a:// and holds a '/' after the scheme, the bucket being what
\* lies before the first such '/' and the key all that follows it; for any
\* other string it returns none.
C25_ParseS3Url ==
    Returned("parse_s3_url") =>
        LET url == batch.url
        IN IF UrlSplits(url) = {} THEN ReturnValue = None
           ELSE \A sp \in UrlSplits(url) :
                    ReturnValue = Some(<<SubSeq(url, Len(sp[1]) + 1, sp[2] - 1),
                                         SubSeq(url, sp[2] + 1, Len(url))>>)
C25_Witness ==
    /\ Returned("parse_s3_url")
    /\ StartsWith(batch.url, S3aScheme)
    /\ ReturnValue = Some(<<<<"b">>, <<"é">>>>)

\* The lines of the first n items of the stream, in stream order.
LinesOf(n) == [i \in 1..n |-> to_string(batch.items[i].value)]
ErrorItems == {i \in 1..Len(batch.items) : batch.items[i].tag = "Err"}
FirstError == CHOOSE i \in ErrorItems : \A j \in ErrorItems : i <= j

\* C26: display_stream writes one line per item in stream order and stops at
\* the first error item: it returns that error with exactly the items before
\* it written; on a stream without an error item it returns Ok with every item
\* written.  While it runs, what is written is the lines of the items taken.
C26_StopsAtFirstError ==
    batch.fn = "display_stream" =>
        IF returned = None
        THEN /\ \A i \in 1..batch.taken : batch.items[i].tag = "Ok"
             /\ out = LinesOf(batch.taken)
        ELSE IF ErrorItems = {}
        THEN ReturnValue = ResultOk("()") /\ out = LinesOf(Len(batch.items))
        ELSE /\ ReturnValue = ResultErr(batch.items[FirstError].error)
             /\ out = LinesOf(FirstError - 1)
C26_Witness ==
    /\ batch.fn = "display_stream"
    /\ Len(batch.items) = 3
    /\ batch.items[1].tag = "Ok"
    /\ batch.items[2].tag = "Err"
    /\ batch.items[3].tag = "Ok"
    /\ returned = Some(ResultErr("test error"))
    /\ Len(out) = 1

\* A text that reads as an integer: an optional sign, then digits only.
IsIntegerText(s) ==
    LET digits == IF s # <<>> /\ s[1] \in {"+", "-"} THEN Tail(s) ELSE s
    IN digits # <<>> /\ \A i \in 1..Len(digits) : IsDigit(digits[i])
\* The snapshot id the argument names, when it names one.
NamedId ==
    IF batch.snapshot_id = CurrentId THEN batch.table.current_snapshot_id
    ELSE IF IsIntegerText(batch.snapshot_id) THEN parse_i64(batch.snapshot_id)
    ELSE None
SnapshotsNamed == {sn \in batch.table.snapshots : NamedId = Some(sn.snapshot_id)}

\* C27: once handle_snapshot has acted, either the argument names no snapshot
\* of the table ("current" without a current snapshot, a text that is no
\* integer, an id no snapshot has) and the command has ended with an error
\* and an empty output, or it names exactly one and the command works on that
\* one: it displays it, or walks its manifest list, whose location is the
\* first record of the walk.
C27_SnapshotResolvedFirst ==
    (batch.fn = "handle_snapshot" /\ pc # "idle") =>
        IF SnapshotsNamed = {}
        THEN pc = "done" /\ result = "Err" /\ out = <<>>
        ELSE /\ Cardinality(SnapshotsNamed) = 1
             /\ result # "Err"
             /\ \A sn \in SnapshotsNamed :
                    IF batch.command = None
                    THEN pc = "done" /\ result = "Ok" /\ out = <<sn>>
                    ELSE /\ manifest_list_location = sn.manifest_list
                         /\ verify = Unwrap(batch.command).verify
                         /\ out # <<>> =>
                                /\ out[1].type = "manifest-list"
                                /\ out[1].path = sn.manifest_list
C27_Witness ==
    /\ batch.fn = "handle_snapshot"
    /\ batch.snapshot_id = <<"-", "0", "7">>
    /\ Cardinality(batch.table.snapshots) = 2
    /\ batch.table.current_snapshot_id = Some(7)
    /\ pc = "manifest_list"
    /\ Len(out) = 1
    /\ out[1].path = Snapshot(0 - 7).manifest_list

\* The manifest fetches in the window of buffered(7): started, their result
\* not yet taken out.
ManifestsInWindow == head_manifest..(next_manifest - 1)

\* C28: the window never holds more than 7 manifest fetches, so no more than 7
\* are in flight, and the fetch of list position j has not been started unless
\* the result of position j - 7 has been taken out of the window.
C28_ManifestWindowOfSeven ==
    /\ Cardinality(ManifestsInWindow) <= 7
    /\ Cardinality(ManifestsInWindow \ fetched) <= 7
    /\ \A j \in 1..(next_manifest - 1) : j > 7 => head_manifest > j - 7
C28_Witness ==
    /\ strategy = "batched"
    /\ Len(manifests) = ManyManifests
    /\ next_manifest = 9
    /\ head_manifest = 2
    /\ fetched \cap ManifestsInWindow = {}

\* The existence tasks in the window of buffered(13).
ProbesInWindow == head_data..(next_data - 1)
\* The Data record of entry e of manifest m is in the output.
DataEmitted(m, e) ==
    \E i \in Records : IsData(i) /\ out_src[i].m = m /\ out_src[i].e = e

\* C29: in a streaming walk the window never holds more than 13 existence
\* tasks, every task in it is of the manifest whose Manifest record was the
\* last one emitted, and a probe of a manifest has been started only when the
\* Data record of every live entry of the manifests before it is out.
C29_ProbeWindowOfThirteen ==
    strategy = "streaming" =>
        /\ Cardinality(ProbesInWindow) <= 13
        /\ pc = "data" =>
               \A k \in ProbesInWindow : data_files[k].m = head_manifest - 1
        /\ \A p \in probes :
               \A m \in 1..(p.m - 1) :
                   \A e \in 1..Len(manifests[m].entries) :
                       manifests[m].entries[e].status # "Deleted" => DataEmitted(m, e)
C29_Witness ==
    /\ strategy = "streaming"
    /\ verify
    /\ pc = "data"
    /\ Len(data_files) = ManyFiles
    /\ head_data = 2
    /\ next_data = 15
    /\ DOMAIN probed = {1}

\* The manifests that cannot be read, and the first of them in list order.
FailingManifests == {j \in 1..Len(manifests) : manifests[j].fetch # "ok"}
FirstFailing == CHOOSE j \in FailingManifests : \A k \in FailingManifests : j <= k

\* C30: in the streaming strategy, when the manifest list is read and the
\* first manifest that cannot be read is at list position j, the error is
\* that manifest's, and it is not reported before the Manifest record and the
\* Data record of every live entry of every manifest before j are out,
\* whatever the order in which the fetches completed.
C30_ErrorAtItsPosition ==
    (/\ strategy = "streaming"
     /\ manifest_list_fetch = "ok"
     /\ FailingManifests # {}
     /\ result = "Err")
    => /\ error = manifests[FirstFailing].fetch
       /\ \A m \in 1..(FirstFailing - 1) :
              /\ \E i \in ManifestRecords : out_src[i].m = m
              /\ \A e \in 1..Len(manifests[m].entries) :
                     IsLive(m, e) => DataEmitted(m, e)
C30_Witness ==
    /\ strategy = "streaming"
    /\ result = "Err"
    /\ Len(manifests) = 2
    /\ FailingManifests = {2}
    /\ Len(manifests[1].entries) = 2
    /\ \A e \in 1..2 : IsLive(1, e)
    /\ Len(out) = 5

\* The paths of the snapshot's live entries, and whether they have no common
\* prefix: there is none, one is not an s3 or s3a URL, or two name different
\* buckets.
LivePaths == {EntryAt(p[1], p[2]).file_path : p \in LivePositions}
NoCommonPrefix ==
    \/ LivePaths = {}
    \/ \E p \in LivePaths : ~IsS3Path(p)
    \/ \E p, q \in LivePaths : BucketOf(p) # BucketOf(q)

\* C31: in the batched strategy on a readable snapshot whose live paths have
\* no common prefix, no Manifest and no Data record is ever written, and the
\* command ends with the fatal error of the prefix computation.
C31_NoPrefixIsFatal ==
    (strategy = "batched" /\ AllFetchesOk /\ NoCommonPrefix)
    => /\ ManifestRecords = {}
       /\ DataRecords = {}
       /\ pc = "done" => result = "Err" /\ error = "prefix"
C31_Witness ==
    /\ strategy = "batched"
    /\ pc = "done"
    /\ result = "Err"
    /\ Len(manifests) = 2
    /\ OtherSchemePath \in LivePaths
    /\ PresentPath \in LivePaths
    /\ Len(out) = 1

\* The command has ended a verification of a readable snapshot without live
\* data files.
VerifiedNoLiveFiles ==
    /\ pc = "done"
    /\ verify
    /\ AllFetchesOk
    /\ LivePositions = {}

\* C32 as stated: a verification of a readable snapshot without live data
\* files ends with verdict success, in the streaming strategy and in the
\* batched one.
C32_NoLiveFilesSucceeds == VerifiedNoLiveFiles => result = "Ok"

\* C32 for the streaming strategy alone: there the verification of a readable
\* snapshot without live data files ends with verdict success.
C32_NoLiveFilesSucceedsStreaming ==
    (VerifiedNoLiveFiles /\ strategy = "streaming") => result = "Ok"
C32_Witness ==
    /\ VerifiedNoLiveFiles
    /\ strategy = "streaming"
    /\ result = "Ok"
    /\ Len(manifests) = 2
    /\ Len(manifests[1].entries) = 2
    /\ Len(out) = 3

\* The Manifest record at output position i is of a manifest whose bytes
\* fetch_bytes returned.
OfFetchedManifest(i) == manifests[out_src[i].m].fetch # "fetch_err"

\* C33 as stated: in either strategy every Manifest record of the output is of
\* a manifest whose bytes were fetched successfully.
C33_ManifestRecordOnlyIfFetched == \A i \in ManifestRecords : OfFetchedManifest(i)

\* C33 for the batched strategy alone: there every Manifest record of the
\* output, which carries exists = true, is of a manifest whose bytes were
\* fetched successfully.
C33_ManifestRecordOnlyIfFetchedBatched ==
    strategy = "batched" =>
        \A i \in ManifestRecords : OfFetchedManifest(i) /\ out[i].exists = Some(TRUE)
C33_Witness ==
    /\ strategy = "batched"
    /\ pc = "done"
    /\ Len(manifests) = 2
    /\ Cardinality(ManifestRecords) = 2
    /\ DataRecords # {}

\* C34: in the streaming strategy, when a manifest of a readable manifest list
\* cannot be fetched or parsed, the command ends with that fatal error, never
\* with the missing-file verdict, however many Data records with
\* exists = false are out by then.
C34_FatalErrorOverVerdict ==
    (/\ strategy = "streaming"
     /\ manifest_list_fetch = "ok"
     /\ FailingManifests # {}
     /\ pc = "done")
    => /\ result = "Err"
       /\ error = manifests[FirstFailing].fetch
C34_Witness ==
    /\ strategy = "streaming"
    /\ pc = "done"
    /\ result = "Err"
    /\ verify
    /\ missing_count > 0
    /\ \E i \in DataRecords : out[i].exists = Some(FALSE)

\* The Manifest records and the Data records of an output, in its order.
IsManifestRecord(record) == record.type = "manifest"
IsDataRecord(record) == record.type = "data"
TimesIn(record, records) == Cardinality({i \in 1..Len(records) : records[i] = record})
\* A streaming run with verify, then a batched run, both ended without a
\* fatal error, no probe of the first having failed.
BothStrategiesFinished ==
    /\ pc = "done"
    /\ strategy = "batched"
    /\ result \in {"Ok", "Failed"}
    /\ IsSome(previous)
    /\ Unwrap(previous).strategy = "streaming"
    /\ Unwrap(previous).result \in {"Ok", "Failed"}
    /\ Unwrap(previous).probe_errors = 0

\* C35: when a streaming run with verify and a batched run on the same
\* snapshot and store both end without a fatal error and no probe failed, the
\* batched output holds the same records the same number of times as the
\* streaming output, the ManifestList record first in both, the Manifest
\* records in the same order and the Data records in the same order.
C35_BatchedPermutesStreaming ==
    BothStrategiesFinished =>
        LET streamed == Unwrap(previous).out
        IN /\ Len(out) = Len(streamed)
           /\ \A i \in 1..Len(out) : TimesIn(out[i], out) = TimesIn(out[i], streamed)
           /\ out[1].type = "manifest-list" /\ out[1] = streamed[1]
           /\ SelectSeq(out, IsManifestRecord) = SelectSeq(streamed, IsManifestRecord)
           /\ SelectSeq(out, IsDataRecord) = SelectSeq(streamed, IsDataRecord)
C35_Witness ==
    /\ BothStrategiesFinished
    /\ Len(SelectSeq(out, IsManifestRecord)) = 2
    /\ Len(SelectSeq(out, IsDataRecord)) = 2
    /\ out # Unwrap(previous).out
    /\ result = "Failed"

\* The pages of the listing, and the URLs of the keys of all of them.
PageNumbers == 1..Len(batch.pages)
KeysOfAllPages ==
    UNION {{S3Url(batch.bucket, Unwrap(object)) :
                object \in {o \in batch.pages[n].contents : IsSome(o)}} :
           n \in PageNumbers}
\* No page is requested twice, and a call that returns the set returns the
\* URLs of the keys of all pages, each page requested once.
ListedOnce ==
    /\ \A n \in PageNumbers : batch.requested[n] <= 1
    /\ (returned # None /\ ReturnValue.tag = "Ok") =>
           /\ ReturnValue.value = KeysOfAllPages
           /\ \A n \in PageNumbers : batch.requested[n] = 1
\* Every page flagged truncated carries the token of the next page.
EveryTruncatedPageHasToken ==
    \A n \in PageNumbers :
        batch.pages[n].is_truncated = Some(TRUE)
            => IsSome(batch.pages[n].next_continuation_token)

\* C36 as stated: on every listing, a truncated page without a token included,
\* the call eventually returns, no page is requested twice, and the set
\* returned is the URLs of the keys of all pages.
C36_ListingTerminates ==
    batch.fn = "list_objects_with_prefix" => ([]ListedOnce /\ <>(returned # None))

\* C36 for the listings whose truncated pages all carry a token: on those the
\* call eventually returns, no page is requested twice, and the set returned
\* is the URLs of the keys of all pages.
C36_ListingWithTokensTerminates ==
    (batch.fn = "list_objects_with_prefix" /\ EveryTruncatedPageHasToken)
        => ([]ListedOnce /\ <>(returned # None))
C36_Witness ==
    /\ batch.fn = "list_objects_with_prefix"
    /\ Len(batch.pages) = 2
    /\ returned = Some(ResultOk(KeysOfAllPages))
    /\ Cardinality(KeysOfAllPages) = 2
    /\ None \in batch.pages[2].contents
    /\ \A n \in PageNumbers : batch.requested[n] = 1

\* The checker create_existence_checker built is of the given kind.
CheckerBuilt(kind) ==
    /\ batch.fn = "create_existence_checker"
    /\ batch.checker # None
    /\ Unwrap(batch.checker).tag = "Ok"
    /\ Unwrap(batch.checker).value.kind = kind
\* The keys the listing returned, and the URLs an S3FileCache of the same
\* listing holds.
KeysListed ==
    {Unwrap(o) : o \in {x \in UNION {batch.pages[n].value : n \in 1..Len(batch.pages)} :
                            IsSome(x)}}
UrlsListed == {S3Url(Unwrap(parse_s3_url(batch.data_prefix))[1], key) : key \in KeysListed}
\* batch.path is under the data prefix and its key was listed.
PathListedUnderPrefix ==
    LET p == parse_s3_url(batch.path)
        P == parse_s3_url(batch.data_prefix)
    IN /\ IsSome(p)
       /\ Unwrap(p)[1] = Unwrap(P)[1]
       /\ StartsWith(Unwrap(p)[2], Unwrap(P)[2])
       /\ Unwrap(p)[2] \in KeysListed

\* C37 as stated: the checker built from a data prefix answers Ok(true) for
\* every path under the prefix whose key was listed, the prefix and the path
\* written s3:// or s3a://, as S3FileCache::exists does on the same listing.
C37_PreloadedFindsListedKeys ==
    (CheckerBuilt("Preloaded") /\ returned # None /\ PathListedUnderPrefix)
        => /\ ReturnValue = Some(TRUE)
           /\ ReturnValue = Some(S3FileCache_exists(UrlsListed, batch.path))

\* C37 for paths written s3://: the checker built from a data prefix written
\* s3:// or s3a:// answers Ok(true) for every such path under the prefix whose
\* key was listed, and on every such path answers what S3FileCache::exists
\* answers on the same listing.
C37_PreloadedFindsListedKeysOfS3Paths ==
    (CheckerBuilt("Preloaded") /\ returned # None /\ StartsWith(batch.path, S3Scheme))
        => /\ PathListedUnderPrefix => ReturnValue = Some(TRUE)
           /\ ReturnValue = Some(S3FileCache_exists(UrlsListed, batch.path))
C37_Witness ==
    /\ CheckerBuilt("Preloaded")
    /\ StartsWith(batch.data_prefix, S3aScheme)
    /\ batch.path = S3Url(Bucket, KeyPresent)
    /\ Len(batch.pages) = 2
    /\ Some(KeyPresent) \in batch.pages[2].value
    /\ Unwrap(batch.checker).value.suffixes = {<<"f">>}
    /\ returned = Some(Some(TRUE))
====
